---------------------------- MODULE Spec2Model ----------------------------
(***************************************************************************)
(* Model of the LocalStock resolution pipeline (server/routes.ts with the  *)
(* in-memory repository of server/storage.ts): cache-key derivation, the   *)
(* guard filter, the prioritizer, the resolution cache and the resolve     *)
(* handler with its backend-proxy fallback.                                *)
(*                                                                         *)
(* A display string that the code parses (a price) is a sequence of        *)
(* one-character strings, so that stripping and parsing are computed.      *)
(***************************************************************************)
EXTENDS Integers, Sequences, FiniteSets, TLC

VARIABLES
    now,          \* Date.now(), in milliseconds
    nreq,         \* number of resolve requests received so far
    resolveCache, \* routes.ts resolveCache: key -> CacheEntry or NoEntry
    products,     \* MemStorage.products, in insertion order
    offers,       \* MemStorage.offers, in insertion order
    audit,        \* MemStorage.resolveRequests, in insertion order
    inflight,     \* resolve handlers suspended in resolveViaBackend
    lastResp,     \* the response most recently sent by the resolve handler
    fnIn,         \* pure-function harness: the argument
    fnOrig,       \* pure-function harness: the argument as first drawn
    fnOut,        \* pure-function harness: the result
    fnPc,         \* pure-function harness: "idle", "ready" or "done"
    settings,        \* extension: chrome.storage.sync
    workerCache,     \* background.js resolveCache, in insertion order
    requestDebounce, \* background.js requestDebounce: key -> timestamp
    fetches,         \* handleProductResolve calls suspended in fetch
    nmsg,            \* number of RESOLVE_PRODUCT messages received so far
    lastReply        \* the reply most recently given to a content script

serverVars == <<now, nreq, resolveCache, products, offers, audit,
                inflight, lastResp>>
fnVars == <<fnIn, fnOrig, fnOut, fnPc>>
workerVars == <<settings, workerCache, requestDebounce, fetches, nmsg,
                lastReply>>
vars == <<now, nreq, resolveCache, products, offers, audit,
          inflight, lastResp, fnIn, fnOrig, fnOut, fnPc,
          settings, workerCache, requestDebounce, fetches, nmsg, lastReply>>

---------------------------------------------------------------------------
(* JavaScript values *)
(* A string-or-undefined value is a string, undefined being Undef.  A      *)
(* number-or-null or boolean-or-null value (a column of the offers table)  *)
(* is a sequence: <<>> is null and <<v>> is the value v.  A number that    *)
(* may be NaN (a parsed price, a comparator result) is a sequence as well: *)
(* <<>> is NaN.                                                            *)

Undef == "<undefined>"
Nul == <<>>
NaN == <<>>

\* an object that is undefined or null (a row not found, a missing entry)
None == <<>>

\* ToBoolean of a string | undefined
TruthyStr(v) == v # Undef /\ v # ""

\* ToBoolean of a number | null
TruthyNum(v) == v # Nul /\ v[1] # 0

\* ToBoolean of a boolean | null
TruthyBool(v) == v # Nul /\ v[1]

\* a || b on strings
Or(a, b) == IF TruthyStr(a) THEN a ELSE b

\* ToNumber of a number | null
ToNumber(v) == IF v = Nul THEN 0 ELSE v[1]

\* a < b and a > b, a a number | null and b a number
JsLess(a, b) == ToNumber(a) < b
JsGreater(a, b) == ToNumber(a) > b

\* all sequences over S of length at most n
SeqsUpTo(S, n) == UNION {[1..k -> S] : k \in 0..n}

\* the elements of a sequence
Range(s) == {s[i] : i \in 1..Len(s)}

---------------------------------------------------------------------------
(* Guard filter *)

MIN_MARGIN == 30
MIN_TRUST_SCORE == 80
MAX_ETA_MINUTES == 480
MAX_DISTANCE_MILES == 50

\* A distance is held in tenths of a mile: m miles.
Miles(m) == 10 * m

\* The callback of applyGuardFilters: TRUE when the offer is kept.
GuardPasses(offer) ==
    /\ ~(TruthyNum(offer.margin) /\ JsLess(offer.margin, MIN_MARGIN))
    /\ ~JsLess(offer.trustScore, MIN_TRUST_SCORE)
    /\ ~JsGreater(offer.etaMinutes, MAX_ETA_MINUTES)
    /\ ~(offer.availabilityType = "pickup"
         /\ JsGreater(offer.distanceMiles, Miles(MAX_DISTANCE_MILES)))
    /\ ~(~TruthyBool(offer.inStock) \/ ~TruthyBool(offer.isEligible))

\* A filter that hands back the survivors last first.
RECURSIVE applyGuardFiltersReversed(_)
applyGuardFiltersReversed(list) ==
    IF list = <<>> THEN <<>>
    ELSE IF GuardPasses(Head(list))
         THEN applyGuardFiltersReversed(Tail(list)) \o <<Head(list)>>
         ELSE applyGuardFiltersReversed(Tail(list))

\* offers.filter(callback): the kept offers, in input order, as a new array
RECURSIVE applyGuardFilters(_)
applyGuardFilters(list) ==
    IF list = <<>> THEN <<>>
    ELSE IF GuardPasses(Head(list))
         THEN <<Head(list)>> \o applyGuardFilters(Tail(list))
         ELSE applyGuardFilters(Tail(list))

---------------------------------------------------------------------------
(* Prioritizer *)

DigitChars == <<"0", "1", "2", "3", "4", "5", "6", "7", "8", "9">>

IsDigit(c) == \E i \in 1..10 : DigitChars[i] = c

DigitVal(c) == (CHOOSE i \in 1..10 : DigitChars[i] = c) - 1

\* price.replace(/[$,]/g, '')
RECURSIVE StripPrice(_)
StripPrice(chars) ==
    IF chars = <<>> THEN <<>>
    ELSE IF Head(chars) \in {"$", ","} THEN StripPrice(Tail(chars))
         ELSE <<Head(chars)>> \o StripPrice(Tail(chars))

\* the leading white space of a string removed
RECURSIVE TrimLeft(_)
TrimLeft(chars) ==
    IF chars # <<>> /\ Head(chars) = " " THEN TrimLeft(Tail(chars)) ELSE chars

\* the longest prefix of digits
RECURSIVE DigitPrefix(_)
DigitPrefix(chars) ==
    IF chars # <<>> /\ IsDigit(Head(chars))
    THEN <<Head(chars)>> \o DigitPrefix(Tail(chars))
    ELSE <<>>

\* the value of the first k digits of a sequence of digits
RECURSIVE DigitsValue(_, _)
DigitsValue(ds, k) ==
    IF k = 0 THEN 0 ELSE 10 * DigitsValue(ds, k - 1) + DigitVal(ds[k])

\* parseFloat: the number written by the longest numeric prefix (sign, digits,
\* a point, digits), as the fraction n / 10^d, or NaN when there is no digit.
\* Exponents and "Infinity" are not in the alphabet of the model's prices.
parseFloat(chars) ==
    LET t == TrimLeft(chars)
        neg == t # <<>> /\ Head(t) = "-"
        u == IF t # <<>> /\ Head(t) \in {"-", "+"} THEN Tail(t) ELSE t
        ip == DigitPrefix(u)
        afterInt == SubSeq(u, Len(ip) + 1, Len(u))
        fp == IF afterInt # <<>> /\ Head(afterInt) = "."
              THEN DigitPrefix(Tail(afterInt)) ELSE <<>>
        mag == DigitsValue(ip \o fp, Len(ip) + Len(fp))
    IN  IF ip = <<>> /\ fp = <<>> THEN NaN
        ELSE <<[n |-> IF neg THEN 0 - mag ELSE mag, d |-> Len(fp)]>>

RECURSIVE Pow10(_)
Pow10(k) == IF k = 0 THEN 1 ELSE 10 * Pow10(k - 1)

Sign(x) == IF x < 0 THEN 0 - 1 ELSE IF x > 0 THEN 1 ELSE 0

\* the sign of priceA - priceB; NaN when either is NaN
PriceDiff(pa, pb) ==
    IF pa = NaN \/ pb = NaN THEN NaN
    ELSE <<Sign(pa[1].n * Pow10(pb[1].d) - pb[1].n * Pow10(pa[1].d))>>

\* The comparator of prioritizeOffers: the sign of its result, or NaN.
Comparator(a, b) ==
    IF a.availabilityType # b.availabilityType /\ a.availabilityType = "pickup"
    THEN <<0 - 1>>
    ELSE IF a.availabilityType # b.availabilityType
            /\ b.availabilityType = "pickup"
    THEN <<1>>
    ELSE IF a.etaMinutes # b.etaMinutes
    THEN <<Sign(a.etaMinutes - b.etaMinutes)>>
    ELSE PriceDiff(parseFloat(StripPrice(a.price)),
                   parseFloat(StripPrice(b.price)))

\* Array.prototype.sort calls the comparator and reads a NaN result as +0.
Compare(a, b) ==
    LET v == Comparator(a, b)
    IN  IF v = NaN THEN 0 ELSE v[1]

Reverse(s) == [i \in 1..Len(s) |-> s[Len(s) + 1 - i]]

\* CountAndMakeRun's loop: the last index of the run that starts at 1, idx
\* being the next index to look at.
RECURSIVE RunEnd(_, _, _)
RunEnd(a, idx, isDescending) ==
    IF idx > Len(a) THEN Len(a)
    ELSE LET order == Compare(a[idx], a[idx - 1])
         IN  IF (isDescending /\ order >= 0) \/ (~isDescending /\ order < 0)
             THEN idx - 1
             ELSE RunEnd(a, idx + 1, isDescending)

\* CountAndMakeRun on an array of at least two elements: the array with its
\* leading run made ascending, and the run's length.
CountAndMakeRun(a) ==
    LET isDescending == Compare(a[2], a[1]) < 0
        runLength == RunEnd(a, 3, isDescending)
    IN  [arr |-> IF isDescending
                 THEN Reverse(SubSeq(a, 1, runLength))
                      \o SubSeq(a, runLength + 1, Len(a))
                 ELSE a,
         runLength |-> runLength]

\* The binary search of BinaryInsertionSort: the insertion point of pivot in
\* a[left+1 .. right] (left and right count from 0, as in the engine).
RECURSIVE InsertionPoint(_, _, _, _)
InsertionPoint(a, pivot, left, right) ==
    IF left >= right THEN left
    ELSE LET mid == left + ((right - left) \div 2)
         IN  IF Compare(pivot, a[mid + 1]) < 0
             THEN InsertionPoint(a, pivot, left, mid)
             ELSE InsertionPoint(a, pivot, mid + 1, right)

\* One pass of BinaryInsertionSort's loop: a[start+1] moved to its
\* insertion point in the sorted prefix a[1..start].
InsertPivot(a, start) ==
    LET pivot == a[start + 1]
        left == InsertionPoint(a, pivot, 0, start)
    IN  SubSeq(a, 1, left) \o <<pivot>> \o SubSeq(a, left + 1, start)
        \o SubSeq(a, start + 2, Len(a))

\* BinaryInsertionSort: a[1..start] is the sorted prefix; insert the rest.
\* (The array after each pass is named by a bound variable, so that it is
\* computed once.)
RECURSIVE BinaryInsertionSort(_, _)
BinaryInsertionSort(a, start) ==
    IF start >= Len(a) THEN a
    ELSE CHOOSE sorted \in {BinaryInsertionSort(moved, start + 1) :
                               moved \in {InsertPivot(a, start)}} : TRUE

\* Array.prototype.sort with prioritizeOffers' comparator, as the engine runs
\* it on an array shorter than 64 elements (one run, extended by binary
\* insertion).
ArraySort(a) ==
    IF Len(a) < 2 THEN a
    ELSE CHOOSE sorted \in {BinaryInsertionSort(run.arr, run.runLength) :
                               run \in {CountAndMakeRun(a)}} : TRUE

\* prioritizeOffers: the list sorted in place, and returned.
prioritizeOffers(list) ==
    CHOOSE sorted \in {ArraySort(offerList) : offerList \in {list}} : TRUE

---------------------------------------------------------------------------
(* Requests and the cache key *)

\* obj[key] on a record read as a JavaScript object: undefined when absent
Get(obj, key) == IF key \in DOMAIN obj THEN obj[key] ELSE Undef

\* a record without its undefined members
Defined(obj) == [k \in {x \in DOMAIN obj : obj[x] # Undef} |-> obj[k]]

\* JSON.stringify of an object of strings, keys in the order `order`: the
\* members that are not undefined, each as <<key, value>>.
RECURSIVE JsonStringify(_, _)
JsonStringify(obj, order) ==
    IF order = <<>> THEN <<>>
    ELSE IF obj[Head(order)] = Undef THEN JsonStringify(obj, Tail(order))
         ELSE <<<<Head(order), obj[Head(order)]>>>>
              \o JsonStringify(obj, Tail(order))

\* The five values the key is made of.
KeyData(request) ==
    [gtin |-> Or(Or(Get(request.identifiers, "gtin"),
                    Get(request.identifiers, "upc")),
                 Get(request.identifiers, "ean")),
     asin |-> Get(request.identifiers, "asin"),
     platform |-> request.platform,
     variant |-> request.variant,
     zip |-> request.zip]

\* A key that also carries the request's title.
generateCacheKeyWithTitle(request) ==
    JsonStringify(KeyData(request),
                  <<"gtin", "asin", "platform", "variant", "zip">>)
    \o <<<<"title", request.title>>>>

generateCacheKey(request) ==
    JsonStringify(KeyData(request),
                  <<"gtin", "asin", "platform", "variant", "zip">>)

---------------------------------------------------------------------------
(* Repository (MemStorage) *)
(* Ids are strings.  A distance is carried in tenths of a mile.  null in   *)
(* a text column is NullStr.                                               *)

NullStr == "<null>"

\* The seeded stores; the stores table is not written after construction.
Stores ==
    [bestbuy |-> [name |-> "Best Buy", chain |-> "bestbuy"],
     target |-> [name |-> "Target", chain |-> "target"],
     walmart |-> [name |-> "Walmart", chain |-> "walmart"]]

\* getStore(id): the store, or None
getStore(id) == IF id \in DOMAIN Stores THEN Stores[id] ELSE None

\* value || null on a text column
OrNullStr(v) == IF TruthyStr(v) THEN v ELSE NullStr

\* value || null on a number column and on a boolean column
OrNullNum(v) == IF TruthyNum(v) THEN v ELSE Nul
OrNullBool(v) == IF TruthyBool(v) THEN v ELSE Nul

\* createProduct: the stored row for an insert, under a new id
createProduct(insert, id) ==
    [id |-> id,
     gtin |-> OrNullStr(insert.gtin),
     upc |-> OrNullStr(insert.upc),
     ean |-> OrNullStr(insert.ean),
     asin |-> OrNullStr(insert.asin),
     sku |-> OrNullStr(insert.sku),
     brand |-> OrNullStr(insert.brand),
     title |-> insert.title,
     variant |-> OrNullStr(insert.variant),
     platform |-> insert.platform]

\* createOffer: the stored row for an insert, under a new id
createOffer(insert, id) ==
    [id |-> id,
     productId |-> OrNullStr(insert.productId),
     storeId |-> OrNullStr(insert.storeId),
     price |-> insert.price,
     availabilityType |-> insert.availabilityType,
     etaMinutes |-> OrNullNum(insert.etaMinutes),
     distanceMiles |-> OrNullNum(insert.distanceMiles),
     inStock |-> OrNullBool(insert.inStock),
     margin |-> OrNullNum(insert.margin),
     trustScore |-> OrNullNum(insert.trustScore),
     isEligible |-> OrNullBool(insert.isEligible)]

\* the id of the n-th row of a table (randomUUID: new at every call)
RowId(table, n) == table \o "-" \o ToString(n)

\* initializeSampleData: the seeded product and its three offers
SeedProducts ==
    <<createProduct([gtin |-> "027242920156", upc |-> "027242920156",
                     ean |-> Undef, asin |-> "B0BXQBHL5D", sku |-> Undef,
                     brand |-> "Sony", title |-> "Sony WH-1000XM5",
                     variant |-> "Black", platform |-> "amazon"],
                    RowId("product", 1))>>

SeedOffers ==
    <<createOffer([productId |-> RowId("product", 1), storeId |-> "bestbuy",
                   price |-> <<"$", "3", "2", "9", ".", "9", "9">>,
                   availabilityType |-> "pickup", etaMinutes |-> <<120>>,
                   distanceMiles |-> <<3>>, inStock |-> <<TRUE>>,
                   margin |-> <<50>>, trustScore |-> <<95>>,
                   isEligible |-> <<TRUE>>], RowId("offer", 1)),
      createOffer([productId |-> RowId("product", 1), storeId |-> "target",
                   price |-> <<"$", "3", "4", "9", ".", "9", "9">>,
                   availabilityType |-> "delivery", etaMinutes |-> <<360>>,
                   distanceMiles |-> <<0>>, inStock |-> <<TRUE>>,
                   margin |-> <<40>>, trustScore |-> <<90>>,
                   isEligible |-> <<TRUE>>], RowId("offer", 2)),
      createOffer([productId |-> RowId("product", 1), storeId |-> "walmart",
                   price |-> <<"$", "3", "3", "9", ".", "9", "5">>,
                   availabilityType |-> "pickup", etaMinutes |-> <<240>>,
                   distanceMiles |-> <<12>>, inStock |-> <<TRUE>>,
                   margin |-> <<35>>, trustScore |-> <<85>>,
                   isEligible |-> <<TRUE>>], RowId("offer", 3))>>

\* getProductByIdentifiers: the first product, in insertion order, one of
\* whose fields equals the identifier of the same name; None when none
ProductMatches(product, identifiers) ==
    \E key \in DOMAIN identifiers :
        key \in DOMAIN product /\ product[key] = identifiers[key]

RECURSIVE getProductByIdentifiers(_, _)
getProductByIdentifiers(table, identifiers) ==
    IF table = <<>> THEN None
    ELSE IF ProductMatches(Head(table), identifiers) THEN Head(table)
         ELSE getProductByIdentifiers(Tail(table), identifiers)

\* getOffersByProduct: the product's offers, in insertion order
RECURSIVE getOffersByProduct(_, _)
getOffersByProduct(table, productId) ==
    IF table = <<>> THEN <<>>
    ELSE IF Head(table).productId = productId
         THEN <<Head(table)>> \o getOffersByProduct(Tail(table), productId)
         ELSE getOffersByProduct(Tail(table), productId)

\* createResolveRequest: the audit row for a request, with or without the
\* response and success flag of a completed resolution
createResolveRequest(request, response, success, id) ==
    [id |-> id,
     identifiers |-> request.identifiers,
     platform |-> request.platform,
     zipCode |-> OrNullStr(request.zip),
     response |-> response,
     success |-> success]

---------------------------------------------------------------------------
(* Resolution cache *)

CACHE_TTL == 300000

\* resolveCache.get(key): the entry, or None
CacheGet(cache, key) == IF key \in DOMAIN cache THEN cache[key] ELSE None

\* A set that leaves an entry that is already there.
CacheSetIfAbsent(cache, key, response, timestamp) ==
    [k \in DOMAIN cache \cup {key} |->
        IF k \in DOMAIN cache THEN cache[k]
        ELSE [response |-> response, timestamp |-> timestamp]]

\* resolveCache.set(key, {response, timestamp})
CacheSet(cache, key, response, timestamp) ==
    [k \in DOMAIN cache \cup {key} |->
        IF k = key THEN [response |-> response, timestamp |-> timestamp]
        ELSE cache[k]]

\* A sweep that deletes every entry stored before the instant t.
cleanExpiredCacheEager(cache, t) ==
    [k \in {x \in DOMAIN cache : ~(t - cache[x].timestamp > 0)} |->
        cache[k]]

\* cleanExpiredCache: the entries older than the TTL deleted
cleanExpiredCache(cache, t) ==
    [k \in {x \in DOMAIN cache : ~(t - cache[x].timestamp > CACHE_TTL)} |->
        cache[k]]

\* A hit test that still serves an entry whose age is exactly the TTL.
CacheHitInclusive(cachedEntry, t) ==
    cachedEntry # None /\ (t - cachedEntry.timestamp) <= CACHE_TTL

\* cachedEntry && (now - cachedEntry.timestamp) < CACHE_TTL
CacheHit(cachedEntry, t) ==
    cachedEntry # None /\ (t - cachedEntry.timestamp) < CACHE_TTL

\* A hit that stamps the response with the time it is served.
HitResponseRestamped(cachedEntry, t) ==
    [cachedEntry.response EXCEPT !.cached = TRUE, !.timestamp = t]

\* { ...cachedEntry.response, cached: true }
HitResponse(cachedEntry, t) == [cachedEntry.response EXCEPT !.cached = TRUE]

---------------------------------------------------------------------------
(* Backend proxy adapter *)

\* the ZIP codes of zipToLatLon's table
ZipTable == {"94103", "94107", "10001"}

\* zipToLatLon(zip) is defined
HasLatLon(zip) == TruthyStr(zip) /\ zip \in ZipTable

\* A candidate list that puts the asin forms first.
CandidatesAsinFirst(request) ==
    LET g == KeyData(request).gtin
        a == Get(request.identifiers, "asin")
    IN  (IF TruthyStr(a) THEN <<<<"asin::", a>>, <<a>>>> ELSE <<>>)
        \o (IF TruthyStr(g) THEN <<<<"gtin::", g>>, <<g>>>> ELSE <<>>)

\* The candidate product ids, in query order.
Candidates(request) ==
    LET g == KeyData(request).gtin
        a == Get(request.identifiers, "asin")
    IN  (IF TruthyStr(g) THEN <<<<"gtin::", g>>, <<g>>>> ELSE <<>>)
        \o (IF TruthyStr(a) THEN <<<<"asin::", a>>, <<a>>>> ELSE <<>>)

\* resolveViaBackend gets as far as its first fetch
ReachesBackend(request) ==
    Candidates(request) # <<>> /\ HasLatLon(request.zip)

\* the decimal digits of a natural number
RECURSIVE NatChars(_)
NatChars(n) ==
    IF n < 10 THEN <<DigitChars[n + 1]>>
    ELSE NatChars(n \div 10) \o <<DigitChars[(n % 10) + 1]>>

\* `$${(price_cents / 100).toFixed(2)}`
CentsToPrice(cents) ==
    <<"$">> \o NatChars(cents \div 100) \o <<".">>
    \o <<DigitChars[((cents % 100) \div 10) + 1], DigitChars[(cents % 10) + 1]>>

\* distance_km / 1.60934 in tenths of a mile, rounded up: the rounding keeps
\* every comparison with a whole number of miles
KmToMiles(km) == ((km * 1000000) + 160933) \div 160934

\* Math.round(Math.max(0, Math.min(1, confidence)) * 100), the confidence
\* being carried in hundredths
TrustOfConfidence(c) == IF c < 0 THEN 0 ELSE IF c > 100 THEN 100 ELSE c

\* The entry pushed for one fulfilment kind of a raw offer: the response
\* fields and the three guard fields.
MappedEntry(o, idx, kind, suffix) ==
    LET part == o[kind]
        etaMin == part.eta_min
        distanceMiles == IF o.distance_km # Nul
                         THEN KmToMiles(o.distance_km[1]) ELSE 0
    IN  [id |-> IF TruthyStr(o.id) THEN o.id
                ELSE "backend-" \o ToString(idx) \o suffix,
         storeName |-> IF o.store # None /\ TruthyStr(o.store.name)
                       THEN o.store.name ELSE "Unknown",
         distanceMiles |-> <<distanceMiles>>,
         availabilityType |-> kind,
         etaMinutes |-> IF etaMin # Nul THEN etaMin ELSE <<0>>,
         price |-> IF o.price_cents # Nul THEN CentsToPrice(o.price_cents[1])
                   ELSE o.price,
         inStock |-> <<TRUE>>,
         margin |-> <<100>>,
         trustScore |-> <<TrustOfConfidence(IF o.confidence # Nul
                                            THEN o.confidence[1] ELSE 100)>>,
         isEligible |-> <<TRUE>>]

\* A mapping that pushes the delivery entry before the pickup entry.
RECURSIVE MapBackendOffersDeliveryFirst(_, _)
MapBackendOffersDeliveryFirst(raw, idx) ==
    IF raw = <<>> THEN <<>>
    ELSE LET o == Head(raw)
         IN  (IF o.delivery # None /\ o.delivery.available
              THEN <<MappedEntry(o, idx, "delivery", "-d")>> ELSE <<>>)
             \o (IF o.pickup # None /\ o.pickup.available
                 THEN <<MappedEntry(o, idx, "pickup", "-p")>> ELSE <<>>)
             \o MapBackendOffersDeliveryFirst(Tail(raw), idx + 1)

\* backendOffers.forEach(...): up to two entries per raw offer, pickup first
RECURSIVE MapBackendOffers(_, _)
MapBackendOffers(raw, idx) ==
    IF raw = <<>> THEN <<>>
    ELSE LET o == Head(raw)
         IN  (IF o.pickup # None /\ o.pickup.available
              THEN <<MappedEntry(o, idx, "pickup", "-p")>> ELSE <<>>)
             \o (IF o.delivery # None /\ o.delivery.available
                 THEN <<MappedEntry(o, idx, "delivery", "-d")>> ELSE <<>>)
             \o MapBackendOffers(Tail(raw), idx + 1)

\* ({ margin, trustScore, isEligible, ...rest }) => rest
StripGuardFields(m) ==
    [id |-> m.id, storeName |-> m.storeName,
     distanceMiles |-> ToNumber(m.distanceMiles),
     availabilityType |-> m.availabilityType,
     etaMinutes |-> ToNumber(m.etaMinutes),
     price |-> m.price, inStock |-> TruthyBool(m.inStock)]

\* An adapter that answers also when no mapped offer passed the guards.
ProxiedResponseUnchecked(backendOffers, t) ==
    [eligible |-> TRUE,
     offers |-> [i \in 1..Len(applyGuardFilters(
                                  MapBackendOffers(backendOffers, 0))) |->
                    StripGuardFields(applyGuardFilters(
                        MapBackendOffers(backendOffers, 0))[i])],
     cached |-> FALSE, timestamp |-> t]

\* The value of resolveViaBackend once its fetches have produced the raw
\* offers backendOffers (empty when every attempt failed or came back
\* empty), the response being built at time t: a response, or None.
ProxiedResponse(backendOffers, t) ==
    LET mapped == MapBackendOffers(backendOffers, 0)
        guarded == applyGuardFilters(mapped)
        filtered == [i \in 1..Len(guarded) |-> StripGuardFields(guarded[i])]
    IN  IF backendOffers = <<>> \/ filtered = <<>> THEN None
        ELSE [eligible |-> TRUE, offers |-> prioritizeOffers(filtered),
              cached |-> FALSE, timestamp |-> t]

---------------------------------------------------------------------------
(* Resolve handler *)
(* A response offer carries the fields the pipeline decides on; the        *)
(* display-only fields (address, chain, eta and distance texts, currency,  *)
(* lastSeen, deepLink, stockLevel) are copied through and left out.        *)

MaxOps == 3

\* the operations clients and the ingestion have performed so far
OpsDone(n, offerTable) == n + (Len(offerTable) - Len(SeedOffers))

\* The instants at which the model looks at the system: the start, and one
\* millisecond before, at and after one TTL later.
Instants == {0, CACHE_TTL - 1, CACHE_TTL, CACHE_TTL + 1}

\* a resolve request with the given identifiers, title and zip
MakeRequest(identifiers, title, zip) ==
    [identifiers |-> identifiers, brand |-> Undef, title |-> title,
     variant |-> Undef, price |-> Undef, currency |-> Undef,
     attributes |-> Undef, platform |-> "amazon",
     url |-> "https://amazon.com/dp/" \o identifiers.asin, zip |-> zip]

\* The requests clients send: the seeded product, a product the repository
\* has not seen, and the same without a ZIP.
Requests ==
    {MakeRequest([asin |-> "B0BXQBHL5D"], "Sony headphones", "10001"),
     MakeRequest([asin |-> "B000000NEW"], Undef, "10001"),
     MakeRequest([asin |-> "B000000NEW"], Undef, Undef)}

\* a raw offer of the backend's wire format
RawOffer(id, km, cents, price, confidence, pickup, delivery) ==
    [id |-> id, store |-> [name |-> "Backend Store"], distance_km |-> km,
     price_cents |-> cents, price |-> price, confidence |-> confidence,
     pickup |-> pickup, delivery |-> delivery]

\* What the adapter's fetches can end with: nothing (a network failure, a
\* non-OK status, empty lists), or one of a few raw offer lists.
BackendReplies ==
    {<<>>,
     <<RawOffer(Undef, <<3>>, <<1999>>, <<>>, <<90>>,
                [available |-> TRUE, eta_min |-> <<60>>],
                [available |-> TRUE, eta_min |-> <<300>>])>>,
     <<RawOffer(Undef, <<3>>, Nul, <<>>, <<50>>,
                [available |-> TRUE, eta_min |-> <<60>>], None),
       RawOffer("b-7", <<100>>, <<500>>, <<>>, <<85>>,
                [available |-> TRUE, eta_min |-> <<30>>],
                [available |-> TRUE, eta_min |-> <<90>>])>>}

\* The offers an ingestion can add for a product: one that passes the guards
\* and names no store, and one whose trust score is too low.
IngestTemplates(productId) ==
    {[productId |-> productId, storeId |-> Undef,
      price |-> <<"$", "1", "9", ".", "0", "0">>,
      availabilityType |-> "delivery", etaMinutes |-> <<45>>,
      distanceMiles |-> <<0>>, inStock |-> <<TRUE>>, margin |-> <<0>>,
      trustScore |-> <<99>>, isEligible |-> <<TRUE>>],
     [productId |-> productId, storeId |-> "target",
      price |-> <<"$", "9", ".", "5", "0">>,
      availabilityType |-> "pickup", etaMinutes |-> <<30>>,
      distanceMiles |-> <<Miles(2)>>, inStock |-> <<TRUE>>, margin |-> <<60>>,
      trustScore |-> <<70>>, isEligible |-> <<TRUE>>]}

\* One formatted offer: the offer joined with its store, None without one.
FormatOffer(offer) ==
    LET store == getStore(offer.storeId)
    IN  IF store = None THEN None
        ELSE [id |-> offer.id, storeName |-> store.name,
              distanceMiles |-> ToNumber(offer.distanceMiles),
              availabilityType |-> offer.availabilityType,
              etaMinutes |-> ToNumber(offer.etaMinutes),
              price |-> offer.price, inStock |-> TruthyBool(offer.inStock)]

\* formattedOffers.filter(offer => offer !== null)
RECURSIVE ValidOffers(_)
ValidOffers(list) ==
    IF list = <<>> THEN <<>>
    ELSE IF FormatOffer(Head(list)) = None THEN ValidOffers(Tail(list))
         ELSE <<FormatOffer(Head(list))>> \o ValidOffers(Tail(list))

\* The response of the local path, built at time t.
LocalResponse(eligibleOffers, t) ==
    [eligible |-> TRUE, offers |-> prioritizeOffers(ValidOffers(eligibleOffers)),
     cached |-> FALSE, timestamp |-> t]

\* The response when neither the repository nor the backend has an offer.
NotEligibleResponse(t) ==
    [eligible |-> FALSE, offers |-> <<>>, cached |-> FALSE, timestamp |-> t]

\* A handler that asks the backend whatever the repository holds.
TriesBackendAlways(eligibleOffers) == TRUE

\* eligibleOffers.length === 0: the handler calls resolveViaBackend
TriesBackend(eligibleOffers) == eligibleOffers = <<>>

\* A handler that stores whatever it answers.
StoresInCacheAlways(path) == TRUE

\* A handler that also stores the response it serves from the cache.
StoresInCacheOnHit(path) == path \in {"local", "proxy", "hit"}

\* The paths of the handler that call resolveCache.set before they answer.
StoresInCache(path) == path \in {"local", "proxy"}

\* A handler that empties the cache when it has nothing to store.
CacheAfterOrCleared(cache, path, key, response, t) ==
    IF StoresInCache(path) THEN CacheSet(cache, key, response, t)
    ELSE IF path = "hit" THEN cache
    ELSE [k \in {} |-> cache[k]]

\* the cache after a resolution on `path` answered `response`
CacheAfter(cache, path, key, response, t) ==
    IF StoresInCache(path) THEN CacheSet(cache, key, response, t) ELSE cache

\* what the handler sent: the response with the request it answers
Sent(seq, request, path, response) ==
    [seq |-> seq, request |-> request, path |-> path, status |-> 200,
     body |-> response]

\* The settings chrome.runtime.onInstalled stores.
InstalledSettings ==
    [enabled |-> TRUE, zipCode |-> "", showDelivery |-> TRUE,
     showPickup |-> TRUE, maxDistance |-> 5]

\* The service worker as it starts: both maps empty.
WorkerInit ==
    /\ settings = InstalledSettings
    /\ workerCache = <<>>
    /\ requestDebounce = <<>>
    /\ fetches = {}
    /\ nmsg = 0
    /\ lastReply = [msg |-> 0, body |-> None]

ServerInit ==
    /\ now = 0
    /\ nreq = 0
    /\ resolveCache = <<>>
    /\ products = SeedProducts
    /\ offers = SeedOffers
    /\ audit = <<>>
    /\ inflight = {}
    /\ lastResp = Sent(0, None, "none", NotEligibleResponse(0))

FnIdle ==
    /\ fnIn = <<>>
    /\ fnOrig = <<>>
    /\ fnOut = <<>>
    /\ fnPc = "idle"

Init == ServerInit /\ FnIdle /\ WorkerInit

\* The clock advances to a later instant.
Tick(t) ==
    /\ t > now
    /\ now' = t
    /\ UNCHANGED <<nreq, resolveCache, products, offers, audit, inflight,
                   lastResp>>
    /\ UNCHANGED fnVars
    /\ UNCHANGED workerVars

\* The insert the handler makes for a request whose product is unknown.
ProductOfRequest(request) ==
    [gtin |-> Get(request.identifiers, "gtin"),
     upc |-> Get(request.identifiers, "upc"),
     ean |-> Get(request.identifiers, "ean"),
     asin |-> Get(request.identifiers, "asin"),
     sku |-> Get(request.identifiers, "sku"),
     brand |-> Or(request.brand, "Unknown"),
     title |-> Or(request.title, "Unknown Product"),
     variant |-> request.variant, platform |-> request.platform]

\* POST /api/resolve, from its start to its answer or, when it has to ask
\* the backend, to its first fetch.  sweep: Math.random() < 0.1.
\* (Each local of the handler is a bound variable, named as in the code.)
Handle(request, sweep) ==
    /\ OpsDone(nreq, offers) < MaxOps
    /\ nreq' = nreq + 1
    /\ UNCHANGED <<now, offers>>
    /\ \E swept \in {IF sweep THEN cleanExpiredCache(resolveCache, now)
                     ELSE resolveCache},
          cacheKey \in {generateCacheKey(request)} :
       \E cachedEntry \in {CacheGet(swept, cacheKey)} :
          IF CacheHit(cachedEntry, now)
          THEN /\ lastResp' = Sent(nreq + 1, request, "hit",
                                   HitResponse(cachedEntry, now))
               /\ resolveCache' = CacheAfter(swept, "hit", cacheKey,
                                             cachedEntry.response, now)
               /\ UNCHANGED <<products, audit, inflight>>
          ELSE \E found \in {getProductByIdentifiers(products,
                                                     request.identifiers)},
                  logged \in {Append(audit, createResolveRequest(
                      request, None, FALSE,
                      RowId("request", Len(audit) + 1)))} :
               \E product \in
                      {IF found # None THEN found
                       ELSE createProduct(ProductOfRequest(request),
                                RowId("product", Len(products) + 1))} :
               \E eligibleOffers \in {applyGuardFilters(
                      getOffersByProduct(offers, product.id))} :
                  /\ products' = IF found # None THEN products
                                 ELSE Append(products, product)
                  /\ IF ~TriesBackend(eligibleOffers)
                     THEN \E response \in
                                 {LocalResponse(eligibleOffers, now)} :
                             /\ resolveCache' = CacheAfter(swept, "local",
                                                    cacheKey, response, now)
                             /\ audit' = Append(logged, createResolveRequest(
                                    request, response, TRUE,
                                    RowId("request", Len(logged) + 1)))
                             /\ lastResp' = Sent(nreq + 1, request, "local",
                                                 response)
                             /\ UNCHANGED inflight
                     ELSE IF ReachesBackend(request)
                     THEN /\ inflight' = inflight \cup
                                 {[seq |-> nreq + 1, request |-> request,
                                   cacheKey |-> cacheKey, now |-> now]}
                          /\ resolveCache' = swept
                          /\ audit' = logged
                          /\ UNCHANGED lastResp
                     ELSE \E response \in {NotEligibleResponse(now)} :
                             /\ resolveCache' = CacheAfter(swept, "none",
                                                    cacheKey, response, now)
                             /\ audit' = logged
                             /\ lastResp' = Sent(nreq + 1, request, "none",
                                                 response)
                             /\ UNCHANGED inflight

\* The handler run for a request, the rest of the system standing still.
Resolve(request, sweep) ==
    /\ Handle(request, sweep)
    /\ UNCHANGED fnVars
    /\ UNCHANGED workerVars

\* The handler suspended in resolveViaBackend resumes: its fetches produced
\* the raw offers backendOffers.
BackendReturn(call, backendOffers) ==
    /\ call \in inflight
    /\ inflight' = inflight \ {call}
    /\ UNCHANGED <<now, nreq, products, offers>>
    /\ UNCHANGED fnVars
    /\ UNCHANGED workerVars
    /\ \E proxied \in {ProxiedResponse(backendOffers, now)} :
          IF proxied # None
          THEN /\ resolveCache' = CacheAfter(resolveCache, "proxy",
                                      call.cacheKey, proxied, call.now)
               /\ audit' = Append(audit, createResolveRequest(
                      call.request, proxied, TRUE,
                      RowId("request", Len(audit) + 1)))
               /\ lastResp' = Sent(call.seq, call.request, "proxy",
                                   [proxied EXCEPT !.cached = FALSE])
          ELSE \E response \in {NotEligibleResponse(now)} :
                  /\ resolveCache' = CacheAfter(resolveCache, "none",
                                         call.cacheKey, response, call.now)
                  /\ lastResp' = Sent(call.seq, call.request, "none",
                                      response)
                  /\ UNCHANGED audit

\* An ingestion adds an offer to the repository (storage.createOffer).
IngestOffer(insert) ==
    /\ OpsDone(nreq, offers) < MaxOps
    /\ offers' = Append(offers,
                        createOffer(insert, RowId("offer", Len(offers) + 1)))
    /\ UNCHANGED <<now, nreq, resolveCache, products, audit, inflight,
                   lastResp>>
    /\ UNCHANGED fnVars
    /\ UNCHANGED workerVars

Next ==
    \/ \E t \in Instants : Tick(t)
    \/ \E request \in Requests, sweep \in BOOLEAN : Resolve(request, sweep)
    \/ \E call \in inflight, backendOffers \in BackendReplies :
           BackendReturn(call, backendOffers)
    \/ \E p \in 1..Len(products) :
           \E insert \in IngestTemplates(products[p].id) : IngestOffer(insert)

Spec == Init /\ [][Next]_vars

---------------------------------------------------------------------------
(* The guard filter on its own *)

MaxGuardLen == 3

\* an offer as the guard filter reads it
GuardOffer(id, margin, trustScore, etaMinutes, availabilityType,
           distanceMiles, inStock, isEligible) ==
    [id |-> id, margin |-> margin, trustScore |-> trustScore,
     etaMinutes |-> etaMinutes, availabilityType |-> availabilityType,
     distanceMiles |-> distanceMiles, inStock |-> inStock,
     isEligible |-> isEligible]

\* One offer for every combination of values at and next to the thresholds.
ThresholdOffers ==
    {GuardOffer("o1", margin, trustScore, etaMinutes, availabilityType,
                distanceMiles, inStock, isEligible) :
        margin \in {Nul, <<0>>, <<MIN_MARGIN - 1>>, <<MIN_MARGIN>>},
        trustScore \in {<<MIN_TRUST_SCORE - 1>>, <<MIN_TRUST_SCORE>>},
        etaMinutes \in {<<MAX_ETA_MINUTES>>, <<MAX_ETA_MINUTES + 1>>},
        availabilityType \in {"pickup", "delivery"},
        distanceMiles \in {<<Miles(MAX_DISTANCE_MILES)>>,
                           <<Miles(MAX_DISTANCE_MILES) + 1>>},
        inStock \in {<<TRUE>>, <<FALSE>>},
        isEligible \in {<<TRUE>>, <<FALSE>>}}

\* The offers the longer lists are made of, by kind: two that pass and two
\* that do not.
GuardKind(kind, id) ==
    CASE kind = "good" ->
           GuardOffer(id, <<40>>, <<90>>, <<60>>, "pickup", <<Miles(1)>>,
                      <<TRUE>>, <<TRUE>>)
      [] kind = "nomargin" ->
           GuardOffer(id, Nul, <<80>>, <<480>>, "delivery", <<Miles(80)>>,
                      <<TRUE>>, <<TRUE>>)
      [] kind = "untrusted" ->
           GuardOffer(id, <<40>>, <<79>>, <<60>>, "pickup", <<Miles(1)>>,
                      <<TRUE>>, <<TRUE>>)
      [] OTHER ->
           GuardOffer(id, <<40>>, <<90>>, <<60>>, "pickup", <<Miles(1)>>,
                      <<FALSE>>, <<TRUE>>)

GuardKinds == {"good", "nomargin", "untrusted", "soldout"}

\* The lists handed to the guard filter: every threshold offer on its own,
\* and every list of up to MaxGuardLen offers of the kinds above, the offer
\* at position i having the id "p-i".
GuardInputs ==
    {<<offer>> : offer \in ThresholdOffers}
    \cup {[i \in 1..Len(kinds) |-> GuardKind(kinds[i], RowId("p", i))] :
             kinds \in SeqsUpTo(GuardKinds, MaxGuardLen)}

GuardInit ==
    /\ ServerInit
    /\ WorkerInit
    /\ fnIn \in GuardInputs
    /\ fnOrig = fnIn
    /\ fnOut = <<>>
    /\ fnPc = "ready"

\* applyGuardFilters(offers): filter builds a new array and leaves its
\* receiver as it is.
ApplyGuard ==
    /\ fnPc = "ready"
    /\ fnOut' = applyGuardFilters(fnIn)
    /\ fnPc' = "done"
    /\ UNCHANGED <<fnIn, fnOrig>>
    /\ UNCHANGED serverVars
    /\ UNCHANGED workerVars

SpecGuard == GuardInit /\ [][ApplyGuard]_vars

---------------------------------------------------------------------------
(* The prioritizer on its own *)

MaxSortLen == 7
MaxMixLen == 3

\* an offer as the prioritizer reads it
SortOffer(id, availabilityType, etaMinutes, price) ==
    [id |-> id, availabilityType |-> availabilityType,
     etaMinutes |-> etaMinutes, price |-> price]

\* Price strings: one with no digits, and two amounts.
TiedPrices == {<<>>, <<"$", "1">>, <<"$", "2">>}

\* Offers of both classes, two ETAs and two prices written with a thousands
\* separator and a fraction.
MixedOffers ==
    {[availabilityType |-> availabilityType, etaMinutes |-> etaMinutes,
      price |-> price] :
        availabilityType \in {"pickup", "delivery"},
        etaMinutes \in {120, 240},
        price \in {<<"$", "1", ",", "0", "0", "0", ".", "5", "0">>,
                   <<"$", "9", "9", "9", ".", "9", "9">>}}

\* The lists handed to the prioritizer, the offer at position i having the
\* id "p-i": lists of up to MaxSortLen offers alike in class and ETA, and
\* lists of up to MaxMixLen mixed offers.
SortInputs ==
    {[i \in 1..Len(prices) |->
         SortOffer(RowId("p", i), "pickup", 60, prices[i])] :
        prices \in SeqsUpTo(TiedPrices, MaxSortLen)}
    \cup {[i \in 1..Len(list) |->
              SortOffer(RowId("p", i), list[i].availabilityType,
                        list[i].etaMinutes, list[i].price)] :
             list \in SeqsUpTo(MixedOffers, MaxMixLen)}

SortInit ==
    /\ ServerInit
    /\ WorkerInit
    /\ fnIn \in SortInputs
    /\ fnOrig = fnIn
    /\ fnOut = <<>>
    /\ fnPc = "ready"

\* prioritizeOffers(offers): sort reorders its receiver and returns it.
Prioritize ==
    /\ fnPc = "ready"
    /\ \E sorted \in {prioritizeOffers(fnIn)} :
          /\ fnIn' = sorted
          /\ fnOut' = sorted
    /\ fnPc' = "done"
    /\ UNCHANGED fnOrig
    /\ UNCHANGED serverVars
    /\ UNCHANGED workerVars

SpecPrioritize == SortInit /\ [][Prioritize]_vars

---------------------------------------------------------------------------
(* The cache key on its own *)

\* the identifiers object with its undefined members left out
Identifiers(gtin, upc, ean, asin) ==
    Defined([gtin |-> gtin, upc |-> upc, ean |-> ean, asin |-> asin])

\* Requests over every combination of identifier, platform, variant and ZIP
\* values, each in two versions that differ in the fields a fingerprint has
\* no use for.
KeyRequests ==
    {[identifiers |-> Identifiers(gtin, upc, ean, asin),
      brand |-> extra.brand, title |-> extra.title, variant |-> variant,
      price |-> extra.price, currency |-> extra.currency,
      attributes |-> extra.attributes, platform |-> platform,
      url |-> extra.url, zip |-> zip] :
        gtin \in {Undef, "00012345"}, upc \in {Undef, "00012345", "777"},
        ean \in {Undef, "777"}, asin \in {Undef, "B01"},
        platform \in {"amazon", "walmart"}, variant \in {Undef, "Black"},
        zip \in {Undef, "10001"},
        extra \in {[brand |-> Undef, title |-> Undef, price |-> Undef,
                    currency |-> Undef, attributes |-> Undef,
                    url |-> "https://a.example/1"],
                   [brand |-> "Sony", title |-> "Sony headphones",
                    price |-> "$329.99", currency |-> "USD",
                    attributes |-> "color=black",
                    url |-> "https://b.example/2?ref=x"]}}

KeyInit ==
    /\ ServerInit
    /\ WorkerInit
    /\ fnIn \in {<<request>> : request \in KeyRequests}
    /\ fnOrig = fnIn
    /\ fnOut = <<>>
    /\ fnPc = "ready"

\* generateCacheKey applied to the request drawn first and to another one
ComputeKeys(other) ==
    /\ fnPc = "ready"
    /\ fnIn' = fnIn \o <<other>>
    /\ fnOut' = <<generateCacheKey(fnIn[1]), generateCacheKey(other)>>
    /\ fnPc' = "done"
    /\ UNCHANGED fnOrig
    /\ UNCHANGED serverVars
    /\ UNCHANGED workerVars

NextKey == \E other \in KeyRequests : ComputeKeys(other)

SpecKey == KeyInit /\ [][NextKey]_vars

---------------------------------------------------------------------------
(* Properties of the resolution cache and the resolve handler *)

\* a step in which a resolve request arrives
Arrives == nreq' = nreq + 1

\* the request that arrives in such a step: the one answered in the step,
\* or the one whose handler went to the backend
ArrivedRequest ==
    IF lastResp'.seq = nreq' THEN lastResp'.request
    ELSE (CHOOSE call \in inflight' : call.seq = nreq').request

\* the cache holds an entry for key that is younger than the TTL at time t
FreshEntry(cache, key, t) ==
    key \in DOMAIN cache /\ t - cache[key].timestamp < CACHE_TTL

\* the request that arrives is answered in the same step, with cached: true
AnsweredFromCache == lastResp'.seq = nreq' /\ lastResp'.body.cached

\* the request that arrives is logged, which opens the full resolution
FullResolution == Len(audit') > Len(audit)

C1_Step ==
    Arrives =>
        \E k \in {generateCacheKey(ArrivedRequest)} :
           /\ AnsweredFromCache <=> FreshEntry(resolveCache, k, now)
           /\ FullResolution <=> ~FreshEntry(resolveCache, k, now)

\* C1: a resolve request that arrives at clock value now with fingerprint k
\* is answered from the cache, with cached: true, if and only if the cache
\* holds an entry for k with now - storedAt < TTL; otherwise it is a miss and
\* the full resolution runs, also when the entry is still in the cache.
C1_CacheTtl == [][C1_Step]_vars

\* A request missed the cache although an entry for its key was, and still
\* is, in the cache with an age of at least the TTL.
C1_MissOnPresentEntry ==
    \E call \in inflight :
       /\ call.cacheKey \in DOMAIN resolveCache
       /\ call.now - resolveCache[call.cacheKey].timestamp >= CACHE_TTL

\* a step that answers a request with the not-eligible response
AnswersNotEligible == lastResp' # lastResp /\ ~lastResp'.body.eligible

C2_Step ==
    /\ AnswersNotEligible =>
          \A k \in DOMAIN resolveCache' :
             k \in DOMAIN resolveCache /\ resolveCache'[k] = resolveCache[k]
    /\ \A k \in DOMAIN resolveCache' : resolveCache'[k].response.eligible
    /\ (/\ Arrives
        /\ lastResp.seq > 0
        /\ ~lastResp.body.eligible
        /\ generateCacheKey(lastResp.request)
              = generateCacheKey(ArrivedRequest)
        /\ generateCacheKey(ArrivedRequest) \notin DOMAIN resolveCache)
       => FullResolution /\ ~AnsweredFromCache

\* C2: a resolution that ends with the not-eligible response adds no entry
\* to the cache and changes none, no entry ever holds a response with
\* eligible: false, and an identical request that follows a not-eligible
\* answer is a miss that runs the full resolution again.
C2_NegativeNotCached == [][C2_Step]_vars

\* The same request was answered not-eligible twice in a row, each time
\* after its full resolution, and the cache is empty.
C2_RetriedAfterNotEligible ==
    /\ lastResp.seq = 2
    /\ ~lastResp.body.eligible
    /\ Len(audit) = 2
    /\ audit[1].identifiers = audit[2].identifiers
    /\ audit[1].zipCode = audit[2].zipCode
    /\ inflight = {}
    /\ resolveCache = <<>>

\* C3: in every reachable state every entry of the resolution cache holds a
\* response with eligible = true and a non-empty offers list.
C3_CacheHoldsOffers ==
    \A k \in DOMAIN resolveCache :
       /\ resolveCache[k].response.eligible
       /\ resolveCache[k].response.offers # <<>>

\* C4: every resolve response whose offers list is empty has eligible =
\* false and cached = false.
C4_EmptyMeansNotEligible ==
    lastResp.body.offers = <<>> =>
        ~lastResp.body.eligible /\ ~lastResp.body.cached

C6_Step ==
    /\ Arrives =>
          \E k \in {generateCacheKey(ArrivedRequest)} :
             FreshEntry(resolveCache, k, now) =>
                 /\ lastResp'.seq = nreq'
                 /\ lastResp'.body =
                        [resolveCache[k].response EXCEPT !.cached = TRUE]
    /\ \A k \in DOMAIN resolveCache' :
          (k \notin DOMAIN resolveCache \/ resolveCache'[k] # resolveCache[k])
          => /\ lastResp' # lastResp
             /\ generateCacheKey(lastResp'.request) = k
             /\ ~lastResp'.body.cached
             /\ lastResp'.body.offers = resolveCache'[k].response.offers
             /\ lastResp'.body.timestamp = resolveCache'[k].response.timestamp

\* C6: a request whose fingerprint has an entry within its TTL window is
\* answered with cached: true and with the entry's response otherwise as it
\* is, and an entry's response has the offers, in their order, and the
\* timestamp field of the response that was sent when the entry was stored.
C6_HitRepeatsStoredResponse == [][C6_Step]_vars

\* A cached answer with several offers, served after the instant its
\* timestamp field names.
C6_ServedFromCacheLater ==
    /\ lastResp.body.cached
    /\ Len(lastResp.body.offers) >= 2
    /\ lastResp.body.timestamp < now

---------------------------------------------------------------------------
(* Properties of the cache key *)

\* the first of gtin, upc, ean that is a non-empty string, else ean
FirstOfGtinUpcEan(request) ==
    IF TruthyStr(Get(request.identifiers, "gtin"))
    THEN Get(request.identifiers, "gtin")
    ELSE IF TruthyStr(Get(request.identifiers, "upc"))
    THEN Get(request.identifiers, "upc")
    ELSE Get(request.identifiers, "ean")

AgreeOnFive(r1, r2) ==
    /\ FirstOfGtinUpcEan(r1) = FirstOfGtinUpcEan(r2)
    /\ Get(r1.identifiers, "asin") = Get(r2.identifiers, "asin")
    /\ r1.platform = r2.platform
    /\ r1.variant = r2.variant
    /\ r1.zip = r2.zip

\* C5: two requests that agree on (gtin-or-upc-or-ean, asin, platform,
\* variant, zip) have the same cache key, whatever their title, brand,
\* price, currency, url and attributes are.
C5_KeyCollapse ==
    fnPc = "done" =>
        (AgreeOnFive(fnIn[1], fnIn[2]) => fnOut[1] = fnOut[2])

\* Two requests with different identifier objects and different titles
\* that agree on the five values got one key.
C5_DifferentRequestsOneKey ==
    /\ fnPc = "done"
    /\ AgreeOnFive(fnIn[1], fnIn[2])
    /\ fnIn[1].identifiers # fnIn[2].identifiers
    /\ fnIn[1].title # fnIn[2].title
    /\ fnIn[1].url # fnIn[2].url
    /\ fnOut[1] = fnOut[2]

---------------------------------------------------------------------------
(* Properties of the guard filter *)

\* the conditions an offer has to satisfy to be kept, as stated
SatisfiesGuards(offer) ==
    /\ offer.margin = Nul \/ offer.margin[1] >= MIN_MARGIN
    /\ offer.trustScore[1] >= MIN_TRUST_SCORE
    /\ offer.etaMinutes[1] <= MAX_ETA_MINUTES
    /\ offer.availabilityType = "pickup"
          => offer.distanceMiles[1] <= Miles(MAX_DISTANCE_MILES)
    /\ offer.inStock = <<TRUE>>
    /\ offer.isEligible = <<TRUE>>

\* C7: applyGuardFilters returns exactly the input offers with margin absent
\* or at least 30 (a present margin below 30, 0 included, disqualifies),
\* trustScore at least 80, etaMinutes at most 480, for pickup a distance of
\* at most MAX_DISTANCE_MILES, and inStock and isEligible true.
C7_GuardExact ==
    fnPc = "done" => fnOut = SelectSeq(fnOrig, SatisfiesGuards)

\* sub is what is left of list when some of its elements are taken out
IsSubsequence(sub, list) ==
    \E f \in [1..Len(sub) -> 1..Len(list)] :
       /\ \A i \in 1..Len(sub) : sub[i] = list[f[i]]
       /\ \A i, j \in 1..Len(sub) : i < j => f[i] < f[j]

\* C8: the result of applyGuardFilters is a subsequence of its input (the
\* surviving offers keep their relative order), the input list and its
\* offers are as they were before the call, and the same input yields the
\* same output when the filter is applied again.
C8_GuardPreservesOrder ==
    fnPc = "done" =>
        /\ IsSubsequence(fnOut, fnOrig)
        /\ fnIn = fnOrig
        /\ applyGuardFilters(fnIn) = fnOut

\* A list of three or more offers of which two or more, but not all, were
\* kept, an offer that was dropped standing before one that was kept.
C8_SomeDroppedSomeKept ==
    /\ fnPc = "done"
    /\ Len(fnOut) >= 2
    /\ Len(fnOut) < Len(fnOrig)
    /\ fnOut[1] # fnOrig[1]

---------------------------------------------------------------------------
(* Properties of the prioritizer *)

\* the price string parsed after '$' and ',' are stripped
ParsedPrice(offer) == parseFloat(StripPrice(offer.price))

\* the order as stated: a has to stand before b
HasToPrecede(a, b) ==
    \/ a.availabilityType = "pickup" /\ b.availabilityType # "pickup"
    \/ /\ (a.availabilityType = "pickup") = (b.availabilityType = "pickup")
       /\ a.etaMinutes < b.etaMinutes
    \/ /\ (a.availabilityType = "pickup") = (b.availabilityType = "pickup")
       /\ a.etaMinutes = b.etaMinutes
       /\ ParsedPrice(a) # NaN
       /\ ParsedPrice(b) # NaN
       /\ PriceDiff(ParsedPrice(a), ParsedPrice(b)) = <<0 - 1>>

\* out holds the elements of list, each as often as list does
IsPermutation(out, list) ==
    /\ Len(out) = Len(list)
    /\ \A x \in Range(list) :
          Cardinality({i \in 1..Len(out) : out[i] = x})
              = Cardinality({i \in 1..Len(list) : list[i] = x})

\* C9: the output of prioritizeOffers is a permutation of its input in which
\* every pickup offer precedes every non-pickup offer, offers of one class
\* are in ascending etaMinutes, and offers of equal etaMinutes are in
\* ascending numeric price, parsed after '$' and ',' are stripped.
C9_PrioritizerOrder ==
    fnPc = "done" =>
        /\ IsPermutation(fnOut, fnOrig)
        /\ \A i, j \in 1..Len(fnOut) :
              i < j => ~HasToPrecede(fnOut[j], fnOut[i])

\* the two offers are alike in class, ETA and parsed price
Tied(a, b) ==
    /\ a.availabilityType = b.availabilityType
    /\ a.etaMinutes = b.etaMinutes
    /\ \/ ParsedPrice(a) = NaN /\ ParsedPrice(b) = NaN
       \/ /\ ParsedPrice(a) # NaN
          /\ ParsedPrice(b) # NaN
          /\ PriceDiff(ParsedPrice(a), ParsedPrice(b)) = <<0>>

\* the position in list of the offer with the given id
PositionOf(list, id) == CHOOSE i \in 1..Len(list) : list[i].id = id

\* C10: two offers with identical availabilityType, etaMinutes and parsed
\* price (offers whose price does not parse included) stand in the output of
\* prioritizeOffers in the order in which they stood in the input.
C10_PrioritizerStable ==
    fnPc = "done" =>
        \A i, j \in 1..Len(fnOrig) :
           (i < j /\ Tied(fnOrig[i], fnOrig[j]))
           => PositionOf(fnOut, fnOrig[i].id) < PositionOf(fnOut, fnOrig[j].id)

---------------------------------------------------------------------------
(* Properties of the backend fallback *)

\* the guard-filtered offers the repository holds for the request's product,
\* the product being looked up after the handler has created it if need be
LocalEligibleOffers(request) ==
    applyGuardFilters(getOffersByProduct(offers,
        getProductByIdentifiers(products', request.identifiers).id))

\* The request that arrives has resolveViaBackend called for it: its handler
\* waits for the backend, or the adapter gave up before its first fetch and
\* the request is answered not-eligible.
AdapterInvoked ==
    \/ \E call \in inflight' : call.seq = nreq'
    \/ lastResp'.seq = nreq' /\ ~lastResp'.body.eligible

C11_Step ==
    (Arrives /\ FullResolution) =>
        /\ AdapterInvoked <=> LocalEligibleOffers(ArrivedRequest) = <<>>
        /\ LocalEligibleOffers(ArrivedRequest) # <<>> => inflight' = inflight

\* C11: resolveViaBackend is invoked in a resolution if and only if the
\* guard-filtered list of local offers of the product is empty; when a local
\* offer passes the guards no backend call is made for the request.
C11_BackendOnlyWhenNoLocalOffer == [][C11_Step]_vars

\* A request whose product has offers in the repository, none of which
\* passes the guards, waits for the backend.
C11_BackendAfterGuardEmptied ==
    \E call \in inflight :
       /\ getOffersByProduct(offers,
              getProductByIdentifiers(products,
                                      call.request.identifiers).id) # <<>>
       /\ LET found == getProductByIdentifiers(products,
                                               call.request.identifiers)
          IN  applyGuardFilters(getOffersByProduct(offers, found.id)) = <<>>

---------------------------------------------------------------------------
(* The handler with a failing backend *)

\* Requests for products the repository has no offer for: one that reaches
\* the backend, one without a ZIP, one whose ZIP zipToLatLon does not know,
\* and one with no gtin, upc, ean or asin.
SoftRequests ==
    {MakeRequest([asin |-> "B000000NEW"], Undef, "10001"),
     MakeRequest([asin |-> "B000000NEW"], Undef, Undef),
     MakeRequest([asin |-> "B000000NEW"], Undef, "99999"),
     [MakeRequest([asin |-> "B0000NOIDS"], Undef, "10001")
         EXCEPT !.identifiers = [sku |-> "SKU-1"]]}

\* What the adapter's fetches end with: a fetch rejects (the adapter's catch
\* returns null), every response has a non-OK status, every response carries
\* an empty list, or a response carries offers.
FailedOutcomes ==
    {[kind |-> "exception", offers |-> <<>>],
     [kind |-> "notOk", offers |-> <<>>],
     [kind |-> "empty", offers |-> <<>>],
     [kind |-> "offers",
      offers |-> <<RawOffer(Undef, <<3>>, <<1999>>, <<>>, <<50>>,
                            [available |-> TRUE, eta_min |-> <<60>>],
                            [available |-> TRUE, eta_min |-> <<300>>])>>],
     [kind |-> "offers",
      offers |-> <<RawOffer(Undef, <<100>>, <<1999>>, <<>>, <<90>>,
                            [available |-> TRUE, eta_min |-> <<60>>], None),
                   RawOffer(Undef, <<3>>, <<1999>>, <<>>, <<90>>,
                            [available |-> TRUE, eta_min |-> <<481>>],
                            None)>>]}

SoftOutcomes ==
    FailedOutcomes
    \cup {[kind |-> "offers",
           offers |-> <<RawOffer(Undef, <<3>>, <<1999>>, <<>>, <<90>>,
                                 [available |-> TRUE, eta_min |-> <<60>>],
                                 None)>>]}

\* backendOffers when the adapter leaves its two query loops; a rejected
\* fetch leaves it through the catch, which returns null as the empty list
\* does
BackendOffersOf(outcome) ==
    IF outcome.kind = "offers" THEN outcome.offers ELSE <<>>

NextSoft ==
    \/ \E t \in Instants : Tick(t)
    \/ \E request \in SoftRequests, sweep \in BOOLEAN :
           Resolve(request, sweep)
    \/ \E call \in inflight, outcome \in SoftOutcomes :
           BackendReturn(call, BackendOffersOf(outcome))

SpecSoft == Init /\ [][NextSoft]_vars

\* the request numbered seq is answered with status 200 and the
\* not-eligible response
SoftAnswer(seq) ==
    /\ lastResp'.seq = seq
    /\ lastResp'.status = 200
    /\ lastResp'.body = [eligible |-> FALSE, offers |-> <<>>,
                         cached |-> FALSE, timestamp |-> now]

\* the adapter returns before its first fetch: no ZIP, a ZIP that is not in
\* the table, or no usable identifier
GivesUpAtOnce(request) ==
    \/ request.zip = Undef
    \/ request.zip \notin ZipTable
    \/ \A key \in {"gtin", "upc", "ean", "asin"} :
          Get(request.identifiers, key) = Undef

C12_Step ==
    /\ \A call \in inflight, outcome \in FailedOutcomes :
          BackendReturn(call, BackendOffersOf(outcome))
          => SoftAnswer(call.seq) /\ resolveCache' = resolveCache
    /\ (/\ Arrives
        /\ FullResolution
        /\ LocalEligibleOffers(ArrivedRequest) = <<>>
        /\ GivesUpAtOnce(ArrivedRequest))
       => /\ SoftAnswer(nreq')
          /\ resolveCache' \in {resolveCache,
                                cleanExpiredCache(resolveCache, now)}

\* C12: in every failure mode of the adapter (no ZIP, a ZIP not in the
\* table, no usable identifier, a rejected fetch, non-OK statuses, empty
\* lists, all mapped offers rejected by the guards) the request is answered
\* with status 200 and {eligible: false, offers: [], cached: false}, and the
\* cache is as it was when the adapter was called.
C12_BackendSoftFailure == [][C12_Step]_vars

\* A request was answered not-eligible after its start was logged, while the
\* cache held the entry of an earlier, successful backend call.
C12_FailedWithCacheInPlace ==
    /\ lastResp.seq > 0
    /\ ~lastResp.body.eligible
    /\ resolveCache # <<>>
    /\ Len(audit) >= 3
    /\ audit[Len(audit)].response = None

---------------------------------------------------------------------------
(* The handler with a failing repository *)
(* MemStorage stands behind the IStorage interface; a call on the          *)
(* repository may reject.  The handler below is POST /api/resolve in which *)
(* one awaited repository call rejects, followed by its catch block, whose *)
(* own repository call succeeds or rejects as well.                        *)

\* the awaited calls that reject: the log of the request (routes.ts:146),
\* the product lookup (149), the log of the local response (240)
ThrowPoints == {"createResolveRequest", "getProductByIdentifiers",
                "completion"}

ErrorMessage == "repository unavailable"

\* res.status(500).json({error, message})
ErrorSent(seq, request, message) ==
    [seq |-> seq, request |-> request, path |-> "error", status |-> 500,
     body |-> [error |-> "Internal server error", message |-> message]]

\* The handler's promise rejected before any response was written: the
\* request stays without an answer.
Unanswered(seq, request) ==
    [seq |-> seq, request |-> request, path |-> "unanswered", status |-> 0,
     body |-> None]

\* the catch block (routes.ts:243-257), the audit table being `table` when
\* it is entered
CatchBlock(table, request, auditWorks) ==
    IF auditWorks
    THEN /\ audit' = Append(table, createResolveRequest(
                request, [error |-> ErrorMessage], FALSE,
                RowId("request", Len(table) + 1)))
         /\ lastResp' = ErrorSent(nreq + 1, request, ErrorMessage)
    ELSE /\ audit' = table
         /\ lastResp' = Unanswered(nreq + 1, request)

ResolveThrows(request, sweep, thrownAt, auditWorks) ==
    /\ OpsDone(nreq, offers) < MaxOps
    /\ nreq' = nreq + 1
    /\ UNCHANGED <<now, offers, products, inflight>>
    /\ UNCHANGED fnVars
    /\ UNCHANGED workerVars
    /\ \E swept \in {IF sweep THEN cleanExpiredCache(resolveCache, now)
                     ELSE resolveCache},
          cacheKey \in {generateCacheKey(request)} :
          /\ ~CacheHit(CacheGet(swept, cacheKey), now)
          /\ \E logged \in {Append(audit, createResolveRequest(
                                request, None, FALSE,
                                RowId("request", Len(audit) + 1)))} :
                CASE thrownAt = "createResolveRequest" ->
                       /\ resolveCache' = swept
                       /\ CatchBlock(audit, request, auditWorks)
                  [] thrownAt = "getProductByIdentifiers" ->
                       /\ resolveCache' = swept
                       /\ CatchBlock(logged, request, auditWorks)
                  [] OTHER ->
                       \E found \in {getProductByIdentifiers(
                                        products, request.identifiers)} :
                          /\ found # None
                          /\ \E eligibleOffers \in {applyGuardFilters(
                                    getOffersByProduct(offers, found.id))} :
                                /\ ~TriesBackend(eligibleOffers)
                                /\ resolveCache' = CacheAfter(swept, "local",
                                       cacheKey,
                                       LocalResponse(eligibleOffers, now),
                                       now)
                                /\ CatchBlock(logged, request, auditWorks)

NextFault ==
    \/ \E t \in Instants : Tick(t)
    \/ \E request \in Requests, sweep \in BOOLEAN : Resolve(request, sweep)
    \/ \E call \in inflight, backendOffers \in BackendReplies :
           BackendReturn(call, backendOffers)
    \/ \E request \in Requests, sweep \in BOOLEAN,
          thrownAt \in ThrowPoints, auditWorks \in BOOLEAN :
           ResolveThrows(request, sweep, thrownAt, auditWorks)

SpecFault == Init /\ [][NextFault]_vars

\* the audit rows written in the step
NewAuditRows == {audit'[i] : i \in (Len(audit) + 1)..Len(audit')}

C13_Step ==
    \A request \in Requests, sweep \in BOOLEAN, thrownAt \in ThrowPoints,
       auditWorks \in BOOLEAN :
       ResolveThrows(request, sweep, thrownAt, auditWorks)
       => /\ lastResp'.seq = nreq'
          /\ lastResp'.status = 500
          /\ DOMAIN lastResp'.body = {"error", "message"}
          /\ Cardinality({row \in NewAuditRows :
                            /\ ~row.success
                            /\ row.response # None
                            /\ row.response.error = lastResp'.body.message})
                = 1

\* C13: whenever a step of the resolve handler after validation raises an
\* exception, a repository failure included, the handler persists exactly
\* one audit record with success = false whose response carries the error
\* message, and the caller receives status 500 with {error, message}; the
\* request does not stay unanswered.
C13_FailureAnswered == [][C13_Step]_vars

---------------------------------------------------------------------------
(* Properties of the audit log *)

C14_Step ==
    /\ (Arrives /\ lastResp'.seq = nreq' /\ ~lastResp'.body.cached)
       => Len(audit') = Len(audit) + 2
    /\ (Arrives /\ \E call \in inflight' : call.seq = nreq')
       => Len(audit') = Len(audit) + 1
    /\ inflight' # inflight /\ ~Arrives
       => Len(audit') = Len(audit) + 1

\* C14: every valid resolve call that is not a cache hit writes exactly two
\* audit records, one at its start and one at its completion, whichever way
\* it ends: a call answered at once writes both in its step, a call that
\* waits for the backend writes the first when it arrives and the second
\* when it is answered.
C14_TwoAuditRecords == [][C14_Step]_vars

---------------------------------------------------------------------------
(* Request validation *)
(* A request body is a JavaScript object: each member is a value tagged    *)
(* with its type, a member that is not there being Absent.                 *)

Absent == [t |-> "undefined", v |-> Undef]
AbsentObj == [t |-> "undefined", v |-> None]
Str(v) == [t |-> "string", v |-> v]
Obj(o) == [t |-> "object", v |-> o]

\* a number, v being its JSON text
Num(v) == [t |-> "number", v |-> v]

OptionalStrings == {"brand", "title", "variant", "price", "currency", "zip"}

\* z.record(z.string())
IsRecordOfStrings(x) ==
    x.t = "object" /\ \A k \in DOMAIN x.v : x.v[k].t = "string"

\* The members of the body that resolveRequestSchema has an issue with.
Issues(body) ==
    {k \in {"identifiers"} : ~IsRecordOfStrings(body[k])}
    \cup {k \in OptionalStrings : body[k].t \notin {"undefined", "string"}}
    \cup {k \in {"attributes"} : body[k].t \notin {"undefined", "object"}}
    \cup {k \in {"platform", "url"} : body[k].t # "string"}

\* A schema that does not ask for the url.
ValidatesWithoutUrl(body) == Issues(body) \ {"url"} = {}

\* resolveRequestSchema.safeParse(req.body).success
Validates(body) == Issues(body) = {}

\* validationResult.data
Parsed(body) ==
    [identifiers |-> [k \in DOMAIN body.identifiers.v |->
                         body.identifiers.v[k].v],
     brand |-> body.brand.v, title |-> body.title.v,
     variant |-> body.variant.v, price |-> body.price.v,
     currency |-> body.currency.v,
     attributes |-> IF body.attributes.t = "undefined" THEN Undef
                    ELSE "[object]",
     platform |-> body.platform.v, url |-> body.url.v, zip |-> body.zip.v]

\* a body with the given members and nothing else
Body(identifiers, title, platform, url, zip) ==
    [identifiers |-> identifiers, brand |-> Absent, title |-> title,
     variant |-> Absent, price |-> Absent, currency |-> Absent,
     attributes |-> Absent, platform |-> platform, url |-> url, zip |-> zip]

\* Bodies the schema accepts: the seeded product's request, and a request
\* with identifiers, platform and url only.
ValidBodies ==
    {Body(Obj([asin |-> Str("B0BXQBHL5D")]), Str("Sony headphones"),
          Str("amazon"), Str("https://amazon.com/dp/B0BXQBHL5D"),
          Str("10001")),
     Body(Obj([asin |-> Str("B000000NEW")]), Absent, Str("amazon"),
          Str("https://amazon.com/dp/B000000NEW"), Absent)}

\* Bodies with platform and url and no identifiers, with no platform, with
\* a url, a ZIP or an identifier that is a number, and with no url.
OtherBodies ==
    {Body(AbsentObj, Absent, Str("amazon"),
          Str("https://amazon.com/dp/B0BXQBHL5D"), Absent),
     Body(Obj([asin |-> Str("B0BXQBHL5D")]), Absent, Absent,
          Str("https://amazon.com/dp/B0BXQBHL5D"), Str("10001")),
     Body(Obj([asin |-> Str("B0BXQBHL5D")]), Absent, Str("amazon"),
          Num("42"), Str("10001")),
     Body(Obj([asin |-> Str("B0BXQBHL5D")]), Absent, Str("amazon"),
          Str("https://amazon.com/dp/B0BXQBHL5D"), Num("10001")),
     Body(Obj([asin |-> Num("7")]), Absent, Str("amazon"),
          Str("https://amazon.com/dp/B0BXQBHL5D"), Str("10001")),
     Body(Obj([asin |-> Str("B0BXQBHL5D")]), Str("Sony headphones"),
          Str("amazon"), Absent, Str("10001"))}

Bodies == ValidBodies \cup OtherBodies

\* res.status(400).json({error, details})
InvalidSent(seq, issues) ==
    [seq |-> seq, request |-> None, path |-> "invalid", status |-> 400,
     body |-> [error |-> "Invalid request format", details |-> issues]]

\* POST /api/resolve with a body that fails validation: the sweep, then the
\* 400.
Reject(body, sweep) ==
    /\ OpsDone(nreq, offers) < MaxOps
    /\ nreq' = nreq + 1
    /\ resolveCache' = IF sweep THEN cleanExpiredCache(resolveCache, now)
                       ELSE resolveCache
    /\ lastResp' = InvalidSent(nreq + 1, Issues(body))
    /\ UNCHANGED <<now, products, offers, audit, inflight>>
    /\ UNCHANGED fnVars
    /\ UNCHANGED workerVars

\* POST /api/resolve with any body
Post(body, sweep) ==
    IF Validates(body) THEN Resolve(Parsed(body), sweep)
    ELSE Reject(body, sweep)

NextPost ==
    \/ \E t \in Instants : Tick(t)
    \/ \E body \in Bodies, sweep \in BOOLEAN : Post(body, sweep)
    \/ \E p \in 1..Len(products) :
          \E insert \in IngestTemplates(products[p].id) : IngestOffer(insert)

SpecPost == Init /\ [][NextPost]_vars

\* no entry of the cache is new or changed in the step
NoEntryAddedOrOverwritten ==
    \A k \in DOMAIN resolveCache' :
       k \in DOMAIN resolveCache /\ resolveCache'[k] = resolveCache[k]

C15_Step ==
    \A body \in OtherBodies, sweep \in BOOLEAN :
       Post(body, sweep)
       => /\ lastResp'.seq = nreq'
          /\ lastResp'.status = 400
          /\ DOMAIN lastResp'.body = {"error", "details"}
          /\ lastResp'.body.details # {}
          /\ audit' = audit
          /\ products' = products
          /\ offers' = offers
          /\ inflight' = inflight
          /\ NoEntryAddedOrOverwritten

\* C15: a request that fails schema validation is answered with status 400
\* and {error, details}; it writes no audit record, looks up or creates no
\* product, makes no backend call, and adds or overwrites no cache entry.
C15_InvalidRequestRejected == [][C15_Step]_vars

\* An invalid request was answered 400 after earlier requests had filled the
\* audit table and the cache.
C15_RejectedWithStateInPlace ==
    /\ lastResp.status = 400
    /\ audit # <<>>
    /\ resolveCache # <<>>

\* platform and url are strings, and every other member is left out or has
\* the type the schema names
PlatformAndUrlGiven(body) ==
    /\ body.platform.t = "string"
    /\ body.url.t = "string"
    /\ body.identifiers.t = "undefined" \/ IsRecordOfStrings(body.identifiers)
    /\ \A k \in OptionalStrings : body[k].t \in {"undefined", "string"}
    /\ body.attributes.t \in {"undefined", "object"}

C16_Step ==
    \A body \in Bodies, sweep \in BOOLEAN :
       (PlatformAndUrlGiven(body) /\ Post(body, sweep))
       => lastResp'.status # 400

\* C16: a request is accepted, not answered with 400, whenever platform and
\* url are present as strings; every other field, identifiers included, may
\* be omitted.
C16_OnlyPlatformAndUrlRequired == [][C16_Step]_vars

---------------------------------------------------------------------------
(* DELETE /api/cache *)

\* A clear that deletes the expired entries only.
ClearedCacheSwept(cache) == cleanExpiredCache(cache, now)

\* resolveCache.clear()
ClearedCache(cache) == [k \in {} |-> cache[k]]

\* res.json({ message: 'Cache cleared' })
ClearSent ==
    [seq |-> 0, request |-> None, path |-> "clear", status |-> 200,
     body |-> [message |-> "Cache cleared"]]

ClearCache ==
    /\ resolveCache' = ClearedCache(resolveCache)
    /\ lastResp' = ClearSent
    /\ UNCHANGED <<now, nreq, products, offers, audit, inflight>>
    /\ UNCHANGED fnVars
    /\ UNCHANGED workerVars

NextAdmin ==
    \/ \E t \in Instants : Tick(t)
    \/ \E request \in Requests, sweep \in BOOLEAN : Resolve(request, sweep)
    \/ \E call \in inflight, backendOffers \in BackendReplies :
           BackendReturn(call, backendOffers)
    \/ ClearCache

SpecAdmin == Init /\ [][NextAdmin]_vars

C17_Step ==
    ClearCache
    => /\ DOMAIN resolveCache' = {}
       /\ lastResp'.status = 200
       /\ lastResp'.body = [message |-> "Cache cleared"]
       /\ UNCHANGED <<products, offers, audit>>
       /\ (lastResp = ClearSent /\ DOMAIN resolveCache = {})
          => UNCHANGED vars

\* C17: DELETE /api/cache can be applied in every state and reports success;
\* after it the cache has no entry; applied to the state a clear has just
\* left it changes nothing; and it leaves products, offers and audit records
\* as they are (the stores are fixed).
C17_CacheClear == [](ENABLED ClearCache) /\ [][C17_Step]_vars

\* The cache was cleared while it held an entry that had not expired, and a
\* handler is waiting for the backend.
C17_ClearedLiveEntries ==
    /\ lastResp = ClearSent
    /\ resolveCache = <<>>
    /\ \E i \in 1..Len(audit) :
          /\ audit[i].response # None
          /\ now - audit[i].response.timestamp < CACHE_TTL
    /\ inflight # {}

---------------------------------------------------------------------------
(* GET /api/resolve/recent *)

\* The number of records the handler asks for.
RECENT_LIMIT == 20

\* A comparator that puts the oldest record first.
RecencyComparatorOldestFirst(a, b) == a.createdAt - b.createdAt

\* (a, b) => (b.createdAt?.getTime() || 0) - (a.createdAt?.getTime() || 0):
\* every record has a createdAt, and createdAt is its time in milliseconds.
RecencyComparator(a, b) == b.createdAt - a.createdAt

\* Array.prototype.sort with the comparator above, as the engine runs it on
\* an array shorter than 64 elements: CountAndMakeRun's loop,
RECURSIVE RecentRunEnd(_, _, _)
RecentRunEnd(a, idx, isDescending) ==
    IF idx > Len(a) THEN Len(a)
    ELSE LET order == RecencyComparator(a[idx], a[idx - 1])
         IN  IF (isDescending /\ order >= 0) \/ (~isDescending /\ order < 0)
             THEN idx - 1
             ELSE RecentRunEnd(a, idx + 1, isDescending)

\* CountAndMakeRun,
RecentCountAndMakeRun(a) ==
    LET isDescending == RecencyComparator(a[2], a[1]) < 0
        runLength == RecentRunEnd(a, 3, isDescending)
    IN  [arr |-> IF isDescending
                 THEN Reverse(SubSeq(a, 1, runLength))
                      \o SubSeq(a, runLength + 1, Len(a))
                 ELSE a,
         runLength |-> runLength]

\* the binary search of BinaryInsertionSort,
RECURSIVE RecentInsertionPoint(_, _, _, _)
RecentInsertionPoint(a, pivot, left, right) ==
    IF left >= right THEN left
    ELSE LET mid == left + ((right - left) \div 2)
         IN  IF RecencyComparator(pivot, a[mid + 1]) < 0
             THEN RecentInsertionPoint(a, pivot, left, mid)
             ELSE RecentInsertionPoint(a, pivot, mid + 1, right)

\* and BinaryInsertionSort.
RECURSIVE RecentBinaryInsertionSort(_, _)
RecentBinaryInsertionSort(a, start) ==
    IF start >= Len(a) THEN a
    ELSE LET pivot == a[start + 1]
             left == RecentInsertionPoint(a, pivot, 0, start)
         IN  CHOOSE sorted \in
                 {RecentBinaryInsertionSort(moved, start + 1) :
                     moved \in {SubSeq(a, 1, left) \o <<pivot>>
                                \o SubSeq(a, left + 1, start)
                                \o SubSeq(a, start + 2, Len(a))}} : TRUE

\* getRecentResolveRequests(limit): the records in insertion order (the
\* order of Map.values()), copied, sorted and cut to the first limit.
getRecentResolveRequests(table, limit) ==
    LET sorted ==
            IF Len(table) < 2 THEN table
            ELSE CHOOSE r \in {RecentBinaryInsertionSort(run.arr,
                                                         run.runLength) :
                                  run \in {RecentCountAndMakeRun(table)}} :
                     TRUE
    IN  SubSeq(sorted, 1, IF Len(sorted) < limit THEN Len(sorted) ELSE limit)

MaxShortTable == 4
MaxExtraRows == 3

\* The instants at which records are written.
WriteInstants == {1000, 1001, 1002}

\* Audit tables in insertion order, the record at position i having the id
\* "r-i": every table of up to MaxShortTable records; and, of each length
\* from RECENT_LIMIT - 1 to RECENT_LIMIT + MaxExtraRows, the tables written
\* while the clock went through the three instants (p records at the first,
\* up to position q at the second), and those written while the clock went
\* round a pattern of three instants.
RecentTables ==
    LET Lengths == (RECENT_LIMIT - 1)..(RECENT_LIMIT + MaxExtraRows)
        Row(i, t) == [id |-> RowId("r", i), createdAt |-> t]
    IN  {[i \in 1..Len(ts) |-> Row(i, ts[i])] :
            ts \in SeqsUpTo(WriteInstants, MaxShortTable)}
        \cup UNION {{[i \in 1..n |->
                        Row(i, IF i <= pq[1] THEN 1000
                               ELSE IF i <= pq[2] THEN 1001 ELSE 1002)] :
                        pq \in {x \in (0..n) \X (0..n) : x[1] <= x[2]}} :
                    n \in Lengths}
        \cup UNION {{[i \in 1..n |-> Row(i, pat[(i % 3) + 1])] :
                        pat \in [1..3 -> WriteInstants]} :
                    n \in Lengths}

RecentInit ==
    /\ ServerInit
    /\ WorkerInit
    /\ fnIn \in RecentTables
    /\ fnOrig = fnIn
    /\ fnOut = <<>>
    /\ fnPc = "ready"

\* The handler: res.json(await storage.getRecentResolveRequests(20)).
Recent ==
    /\ fnPc = "ready"
    /\ fnOut' = getRecentResolveRequests(fnIn, RECENT_LIMIT)
    /\ fnPc' = "done"
    /\ UNCHANGED <<fnIn, fnOrig>>
    /\ UNCHANGED serverVars
    /\ UNCHANGED workerVars

SpecRecent == RecentInit /\ [][Recent]_vars

\* C18: the answer holds min(20, total) records of the table, each once;
\* none of them is older than a record that is left out; and each is at
\* least as new as the one after it.
C18_RecentNewestFirst ==
    fnPc = "done"
    => /\ Len(fnOut) = (IF Len(fnIn) < 20 THEN Len(fnIn) ELSE 20)
       /\ \A i \in 1..Len(fnOut) : \E j \in 1..Len(fnIn) : fnIn[j] = fnOut[i]
       /\ \A i, j \in 1..Len(fnOut) : fnOut[i] = fnOut[j] => i = j
       /\ \A j \in 1..Len(fnIn) :
             (\A i \in 1..Len(fnOut) : fnOut[i] # fnIn[j])
             => \A i \in 1..Len(fnOut) :
                   fnOut[i].createdAt >= fnIn[j].createdAt
       /\ \A i \in 1..(Len(fnOut) - 1) :
             fnOut[i].createdAt >= fnOut[i + 1].createdAt

\* More than 20 records, written out of time order, have been asked for, and
\* a record left out was written in the same instant as the last one
\* returned.
C18_CutInsideOneInstant ==
    /\ fnPc = "done"
    /\ Len(fnIn) > 20
    /\ \E i \in 1..(Len(fnIn) - 1) : fnIn[i].createdAt > fnIn[i + 1].createdAt
    /\ \E j \in 1..Len(fnIn) :
          /\ \A i \in 1..Len(fnOut) : fnOut[i] # fnIn[j]
          /\ fnIn[j].createdAt = fnOut[Len(fnOut)].createdAt

---------------------------------------------------------------------------
(* The extension's service worker (extension/background.js) *)

\* CACHE_TTL of background.js, and the debounce sweep's timeout
WORKER_CACHE_TTL == 300000
DEBOUNCE_TIMEOUT == 30000
MAX_CACHE_ENTRIES == 200

\* generateCacheKey(productData, zipCode) of background.js
workerGenerateCacheKey(productData, zipCode) ==
    JsonStringify(KeyData([productData EXCEPT !.zip = zipCode]),
                  <<"gtin", "asin", "platform", "variant", "zip">>)

\* getCachedResult: the data of the entry, or null; an entry older than the
\* TTL is deleted by the lookup.
getCachedResult(cache, cacheKey, t) ==
    IF \E i \in 1..Len(cache) :
          /\ cache[i].key = cacheKey
          /\ ~(t - cache[i].timestamp > WORKER_CACHE_TTL)
    THEN LET i == CHOOSE x \in 1..Len(cache) : cache[x].key = cacheKey
         IN  cache[i].data
    ELSE None

CacheAfterGet(cache, cacheKey, t) ==
    SelectSeq(cache,
              LAMBDA e : ~(e.key = cacheKey
                           /\ t - e.timestamp > WORKER_CACHE_TTL))

\* setCachedResult: a full cache loses its first key, then Map.set.
setCachedResult(cache, cacheKey, data, t) ==
    LET kept == IF Len(cache) >= MAX_CACHE_ENTRIES THEN Tail(cache)
                ELSE cache
        entry == [key |-> cacheKey, data |-> data, timestamp |-> t]
    IN  IF \E i \in 1..Len(kept) : kept[i].key = cacheKey
        THEN [i \in 1..Len(kept) |->
                 IF kept[i].key = cacheKey THEN entry ELSE kept[i]]
        ELSE Append(kept, entry)

\* requestDebounce.delete(cacheKey)
DebounceDelete(debounce, cacheKey) ==
    [k \in DOMAIN debounce \ {cacheKey} |-> debounce[k]]

\* The user-preference filter applied to result.offers.
PreferenceFilter(list, prefs) ==
    SelectSeq(list,
              LAMBDA offer :
                  /\ ~(~prefs.showDelivery
                       /\ offer.availabilityType = "delivery")
                  /\ ~(~prefs.showPickup
                       /\ offer.availabilityType = "pickup")
                  /\ ~(offer.availabilityType = "pickup"
                       /\ offer.distanceMiles > Miles(prefs.maxDistance)))

\* The product data content scripts send: two products.
ProductData ==
    {MakeRequest([asin |-> "B0BXQBHL5D"], "Sony headphones", Undef),
     MakeRequest([asin |-> "B000000NEW"], Undef, Undef)}

\* The objects chrome.storage.sync.set receives with UPDATE_SETTINGS.
SettingsUpdates ==
    {[enabled |-> FALSE], [enabled |-> TRUE], [zipCode |-> "10001"]}

\* What the fetch of /resolve comes to: a response with offers, a response
\* that is not eligible, a response whose status is not ok, and a network
\* error.
FetchOutcomes ==
    {[kind |-> "ok",
      result |-> [eligible |-> TRUE,
                  offers |-> <<[id |-> "o-1", availabilityType |-> "pickup",
                                distanceMiles |-> Miles(2)],
                               [id |-> "o-2", availabilityType |-> "pickup",
                                distanceMiles |-> Miles(7)],
                               [id |-> "o-3",
                                availabilityType |-> "delivery",
                                distanceMiles |-> Miles(3)]>>,
                  cached |-> FALSE]],
     [kind |-> "ok",
      result |-> [eligible |-> FALSE, offers |-> <<>>, cached |-> FALSE]],
     [kind |-> "API request failed: 500", result |-> None],
     [kind |-> "Failed to fetch", result |-> None]}

Reply(msg, body) == [msg |-> msg, body |-> body]

\* handleProductResolve from the settings read to the fetch call, or to the
\* return that comes before it.
HandleProductResolve(productData) ==
    /\ nmsg < MaxOps
    /\ nmsg' = nmsg + 1
    /\ LET cacheKey == workerGenerateCacheKey(productData, settings.zipCode)
           cachedResult == getCachedResult(workerCache, cacheKey, now)
       IN  IF ~settings.enabled
           THEN /\ lastReply' = Reply(nmsg + 1,
                                      [eligible |-> FALSE,
                                       reason |-> "Extension disabled"])
                /\ UNCHANGED <<workerCache, requestDebounce, fetches>>
           ELSE IF cachedResult # None
           THEN /\ lastReply' = Reply(nmsg + 1,
                                      [cachedResult EXCEPT !.cached = TRUE])
                /\ workerCache' = CacheAfterGet(workerCache, cacheKey, now)
                /\ UNCHANGED <<requestDebounce, fetches>>
           ELSE IF cacheKey \in DOMAIN requestDebounce
           THEN /\ lastReply' = Reply(nmsg + 1,
                                      [eligible |-> FALSE,
                                       reason |-> "Request in progress"])
                /\ workerCache' = CacheAfterGet(workerCache, cacheKey, now)
                /\ UNCHANGED <<requestDebounce, fetches>>
           ELSE /\ requestDebounce' =
                       [k \in DOMAIN requestDebounce \cup {cacheKey} |->
                           IF k = cacheKey THEN now ELSE requestDebounce[k]]
                /\ fetches' = fetches \cup
                       {[msg |-> nmsg + 1, cacheKey |-> cacheKey,
                         settings |-> settings]}
                /\ workerCache' = CacheAfterGet(workerCache, cacheKey, now)
                /\ UNCHANGED lastReply
    /\ UNCHANGED settings
    /\ UNCHANGED serverVars
    /\ UNCHANGED fnVars

\* The fetch settles: the rest of handleProductResolve, with its finally
\* and its catch.
Settle(call, outcome) ==
    /\ call \in fetches
    /\ fetches' = fetches \ {call}
    /\ requestDebounce' = DebounceDelete(requestDebounce, call.cacheKey)
    /\ IF outcome.kind = "ok"
       THEN LET result ==
                    [outcome.result EXCEPT
                        !.offers = PreferenceFilter(outcome.result.offers,
                                                    call.settings)]
            IN  /\ workerCache' =
                       IF result.eligible /\ Len(result.offers) > 0
                       THEN setCachedResult(workerCache, call.cacheKey,
                                            result, now)
                       ELSE workerCache
                /\ lastReply' = Reply(call.msg, result)
       ELSE /\ lastReply' = Reply(call.msg,
                                  [eligible |-> FALSE,
                                   error |-> outcome.kind,
                                   offers |-> <<>>])
            /\ UNCHANGED workerCache
    /\ UNCHANGED <<settings, nmsg>>

\* The fetch settles with an outcome the server side is not asked for.
FetchReturn(call, outcome) ==
    /\ Settle(call, outcome)
    /\ UNCHANGED serverVars
    /\ UNCHANGED fnVars

\* The debounce map's interval callback.
DebounceSweep ==
    /\ requestDebounce' =
           [k \in {x \in DOMAIN requestDebounce :
                      ~(now - requestDebounce[x] > DEBOUNCE_TIMEOUT)} |->
               requestDebounce[k]]
    /\ UNCHANGED <<settings, workerCache, fetches, nmsg, lastReply>>
    /\ UNCHANGED serverVars
    /\ UNCHANGED fnVars

\* The CLEAR_CACHE message: both maps cleared (the DELETE it then sends to
\* the server acts on the server's state only).
ClearCacheMessage ==
    /\ workerCache' = <<>>
    /\ requestDebounce' = <<>>
    /\ UNCHANGED <<settings, fetches, nmsg, lastReply>>
    /\ UNCHANGED serverVars
    /\ UNCHANGED fnVars

\* The UPDATE_SETTINGS message: chrome.storage.sync.set(message.data).
UpdateSettings(data) ==
    /\ settings' = [k \in DOMAIN settings |->
                       IF k \in DOMAIN data THEN data[k] ELSE settings[k]]
    /\ UNCHANGED <<workerCache, requestDebounce, fetches, nmsg, lastReply>>
    /\ UNCHANGED serverVars
    /\ UNCHANGED fnVars

NextWorker ==
    \/ \E t \in Instants : Tick(t)
    \/ \E productData \in ProductData : HandleProductResolve(productData)
    \/ \E call \in fetches, outcome \in FetchOutcomes :
           FetchReturn(call, outcome)
    \/ DebounceSweep
    \/ ClearCacheMessage
    \/ \E data \in SettingsUpdates : UpdateSettings(data)

SpecWorker == Init /\ [][NextWorker]_vars

\* C19: for no cache key are two fetches of /resolve in flight.
C19_OneFetchPerKey ==
    \A a, b \in fetches : a.cacheKey = b.cacheKey => a = b

---------------------------------------------------------------------------
(* The cache hit *)

C20_Step ==
    (Arrives /\ AnsweredFromCache)
    => /\ UNCHANGED <<products, offers, audit, inflight>>
       /\ \E k \in {generateCacheKey(ArrivedRequest)} :
             /\ k \in DOMAIN resolveCache
             /\ k \in DOMAIN resolveCache'
             /\ resolveCache'[k].response = resolveCache[k].response
             /\ resolveCache'[k].timestamp = resolveCache[k].timestamp

\* C20: a request answered from the cache writes no product, offer or audit
\* record and starts no backend call, and the entry it was answered from
\* has the same response and the same timestamp after it as before.
C20_HitSkipsResolution == [][C20_Step]_vars

\* A request has been answered from an entry stored at an earlier instant,
\* and the entry still carries that instant.
C20_HitOnOlderEntry ==
    /\ lastResp.path = "hit"
    /\ \E k \in {generateCacheKey(lastResp.request)} :
          /\ k \in DOMAIN resolveCache
          /\ resolveCache[k].timestamp < now
          /\ resolveCache[k].timestamp = lastResp.body.timestamp
    /\ Len(audit) = 2
    /\ nreq >= 2

---------------------------------------------------------------------------
(* The timestamp of a cache entry *)

\* the entry for key k is inserted or overwritten in the step
EntryWritten(k) ==
    /\ k \in DOMAIN resolveCache'
    /\ k \notin DOMAIN resolveCache \/ resolveCache'[k] # resolveCache[k]

C21_Step ==
    \A k \in DOMAIN resolveCache' :
       EntryWritten(k)
       => /\ now' - resolveCache'[k].timestamp < CACHE_TTL
          /\ k \in DOMAIN resolveCache
             => resolveCache'[k].timestamp >= resolveCache[k].timestamp

\* C21: an entry is younger than the TTL at the moment it is written, and
\* an overwrite never puts an older timestamp in the place of a newer one.
C21_TimestampIsStoreTime == [][C21_Step]_vars


---------------------------------------------------------------------------
(* resolveViaBackend, one fetch at a time *)

\* The requests handed to the adapter: each of these identifier sets with
\* a ZIP the table knows, with no ZIP and with a ZIP it does not know.
AdapterRequests ==
    {[MakeRequest([asin |-> "A1"], Undef, zip) EXCEPT !.identifiers = ids] :
        ids \in {[gtin |-> "G1"], [asin |-> "A1"],
                 [gtin |-> "G1", asin |-> "A1"],
                 [upc |-> "U1", asin |-> "A1"],
                 [upc |-> "U1", ean |-> "E1"],
                 [gtin |-> "", ean |-> "E1", asin |-> "A1"],
                 [sku |-> "SKU-1"]},
        zip \in {"10001", Undef, "99999"}}

\* BACKEND_API_KEY: not configured, or configured
ApiKeys == {"", "secret"}

\* What one fetch comes to: the promise rejects; a status that is not ok;
\* a body without an offers array; an empty offers array; offers.
FetchReplies ==
    {[kind |-> "rejected", offers |-> <<>>],
     [kind |-> "notOk", offers |-> <<>>],
     [kind |-> "notArray", offers |-> <<>>],
     [kind |-> "empty", offers |-> <<>>],
     [kind |-> "offers",
      offers |-> <<RawOffer(Undef, <<3>>, <<1999>>, <<>>, <<90>>,
                            [available |-> TRUE, eta_min |-> <<60>>],
                            [available |-> TRUE, eta_min |-> <<300>>])>>]}

AdapterInit ==
    /\ ServerInit
    /\ WorkerInit
    /\ fnIn \in [request : AdapterRequests, apiKey : ApiKeys]
    /\ fnOrig = fnIn
    /\ fnOut = [queries |-> <<>>, backendOffers |-> <<>>, result |-> None]
    /\ fnPc = "ready"

\* From the call to the first fetch, or to one of the two early returns.
AdapterBegin ==
    /\ fnPc = "ready"
    /\ fnPc' = IF ReachesBackend(fnIn.request) THEN "primary" ELSE "done"
    /\ UNCHANGED <<fnIn, fnOrig, fnOut>>
    /\ UNCHANGED serverVars
    /\ UNCHANGED workerVars

\* One pass of the first loop: POST /api/resolve with { product_id, zip }
\* and the Content-Type header only.
PrimaryQuery(reply) ==
    /\ fnPc = "primary"
    /\ LET candidates == Candidates(fnIn.request)
           i == Len(fnOut.queries) + 1
           query == [path |-> "/api/resolve", product_id |-> candidates[i],
                     zip |-> fnIn.request.zip, apiKey |-> Undef,
                     reply |-> reply.kind]
       IN  /\ fnOut' =
                  [queries |-> Append(fnOut.queries, query),
                   backendOffers |-> reply.offers,
                   result |-> IF reply.kind = "offers"
                              THEN ProxiedResponse(reply.offers, now)
                              ELSE None]
           /\ fnPc' = IF reply.kind \in {"rejected", "offers"} THEN "done"
                      ELSE IF i = Len(candidates) THEN "secondary"
                      ELSE "primary"
    /\ UNCHANGED <<fnIn, fnOrig>>
    /\ UNCHANGED serverVars
    /\ UNCHANGED workerVars

\* One pass of the second loop: POST /v1/offers with { product_id, lat,
\* lon, radius_km } and headersJson, which has X-API-Key when
\* BACKEND_API_KEY is set.
SecondaryQuery(reply) ==
    /\ fnPc = "secondary"
    /\ LET candidates == Candidates(fnIn.request)
           j == Len(fnOut.queries) - Len(candidates) + 1
           query == [path |-> "/v1/offers", product_id |-> candidates[j],
                     zip |-> Undef,
                     apiKey |-> IF TruthyStr(fnIn.apiKey) THEN fnIn.apiKey
                                ELSE Undef,
                     reply |-> reply.kind]
       IN  /\ fnOut' =
                  [queries |-> Append(fnOut.queries, query),
                   backendOffers |-> reply.offers,
                   result |-> IF reply.kind = "offers"
                              THEN ProxiedResponse(reply.offers, now)
                              ELSE None]
           /\ fnPc' = IF reply.kind \in {"rejected", "offers"}
                         \/ j = Len(candidates)
                      THEN "done" ELSE "secondary"
    /\ UNCHANGED <<fnIn, fnOrig>>
    /\ UNCHANGED serverVars
    /\ UNCHANGED workerVars

NextAdapter ==
    \/ AdapterBegin
    \/ \E reply \in FetchReplies : PrimaryQuery(reply)
    \/ \E reply \in FetchReplies : SecondaryQuery(reply)

SpecAdapter == AdapterInit /\ [][NextAdapter]_vars

\* the list ["gtin::g", g, "asin::a", a] of a request
CandidateList(request) ==
    LET g == FirstOfGtinUpcEan(request)
        a == Get(request.identifiers, "asin")
    IN  (IF g \notin {Undef, ""} THEN <<<<"gtin::", g>>, <<g>>>> ELSE <<>>)
        \o (IF a \notin {Undef, ""} THEN <<<<"asin::", a>>, <<a>>>>
            ELSE <<>>)

\* the queries sent to `path`, in the order sent
QueriesTo(path) == SelectSeq(fnOut.queries, LAMBDA q : q.path = path)

\* the query was answered, and with no offer
NoList(q) == q.reply \in {"notOk", "notArray", "empty"}

---------------------------------------------------------------------------
(* resolveViaBackend, from the raw offers to the response *)

MaxRawLen == 3

\* Raw offers of every shape: with and without an id; no confidence, and
\* confidences below 0, on both sides of 0.8 and above 1; pickup and
\* delivery absent, unavailable, and available with an ETA, on both sides
\* of 480 minutes, or without one; 16 km and 17 km away (under and over 10
\* miles), or with no distance.
RawShapes ==
    {RawOffer(id, km, <<1999>>, <<>>, confidence, pickup, delivery) :
        id \in {Undef, "b-7"},
        km \in {Nul, <<16>>, <<17>>},
        confidence \in {Nul, <<0 - 5>>, <<79>>, <<80>>, <<150>>},
        pickup \in {None, [available |-> FALSE, eta_min |-> <<10>>],
                    [available |-> TRUE, eta_min |-> <<480>>]},
        delivery \in {None, [available |-> TRUE, eta_min |-> Nul],
                      [available |-> TRUE, eta_min |-> <<481>>]}}

\* Raw offers that lists are made of: three whose pickup entries are alike
\* in ETA, priced $2.00, with no price at all, and $1.00; one too far away
\* for pickup; and one of too low a confidence.
RawMix ==
    {RawOffer(Undef, <<3>>, <<200>>, <<>>, Nul,
              [available |-> TRUE, eta_min |-> <<60>>],
              [available |-> TRUE, eta_min |-> <<30>>]),
     RawOffer("b-7", <<16>>, Nul, <<>>, <<85>>,
              [available |-> TRUE, eta_min |-> <<60>>],
              [available |-> FALSE, eta_min |-> <<20>>]),
     RawOffer(Undef, <<3>>, <<100>>, <<>>, <<80>>,
              [available |-> TRUE, eta_min |-> <<60>>],
              [available |-> TRUE, eta_min |-> <<60>>]),
     RawOffer(Undef, <<17>>, Nul, <<"$", "7">>, <<90>>,
              [available |-> TRUE, eta_min |-> <<20>>],
              [available |-> TRUE, eta_min |-> <<10>>]),
     RawOffer(Undef, Nul, <<500>>, <<>>, <<79>>, None,
              [available |-> TRUE, eta_min |-> <<10>>])}

\* The non-empty raw offer lists the mapping is given.
RawLists ==
    {<<o>> : o \in RawShapes} \cup (SeqsUpTo(RawMix, MaxRawLen) \ {<<>>})

NormalizeInit ==
    /\ ServerInit
    /\ WorkerInit
    /\ fnIn \in RawLists
    /\ fnOrig = fnIn
    /\ fnOut = [mapped |-> <<>>, result |-> None]
    /\ fnPc = "ready"

\* resolveViaBackend from `if (backendOffers.length === 0) return null` to
\* its return: mapped, and the response or null.
Normalize ==
    /\ fnPc = "ready"
    /\ fnOut' = [mapped |-> MapBackendOffers(fnIn, 0),
                 result |-> ProxiedResponse(fnIn, now)]
    /\ fnPc' = "done"
    /\ UNCHANGED <<fnIn, fnOrig>>
    /\ UNCHANGED serverVars
    /\ UNCHANGED workerVars

SpecNormalize == NormalizeInit /\ [][Normalize]_vars

\* the fulfilment types a raw offer marks available, pickup first, each with
\* the index of the raw offer
Yield(raw, i) ==
    (IF raw[i].pickup # None /\ raw[i].pickup.available
     THEN <<[from |-> i, type |-> "pickup"]>> ELSE <<>>)
    \o (IF raw[i].delivery # None /\ raw[i].delivery.available
        THEN <<[from |-> i, type |-> "delivery"]>> ELSE <<>>)

\* the same for a whole list
Yields(raw) ==
    LET upTo[i \in 0..Len(raw)] ==
            IF i = 0 THEN <<>> ELSE upTo[i - 1] \o Yield(raw, i)
    IN  upTo[Len(raw)]

\* round(100 * confidence clamped to [0, 1]), 100 without a confidence; the
\* confidence is in hundredths
ScaledConfidence(o) ==
    IF o.confidence = Nul THEN 100
    ELSE IF o.confidence[1] < 0 THEN 0
    ELSE IF o.confidence[1] > 100 THEN 100
    ELSE o.confidence[1]

\* C23: the mapped list has, raw offer by raw offer, a pickup entry iff
\* pickup is available and then a delivery entry iff delivery is available,
\* each with inStock true, isEligible true, margin 100 and the scaled
\* confidence as trustScore; and no offer of a returned response has a
\* margin, trustScore or isEligible field.
C23_ProxyNormalization ==
    fnPc = "done" =>
    LET expected == Yields(fnIn)
    IN  /\ Len(fnOut.mapped) = Len(expected)
        /\ \A j \in 1..Len(expected) :
              /\ fnOut.mapped[j].availabilityType = expected[j].type
              /\ fnOut.mapped[j].inStock = <<TRUE>>
              /\ fnOut.mapped[j].isEligible = <<TRUE>>
              /\ fnOut.mapped[j].margin = <<100>>
              /\ fnOut.mapped[j].trustScore =
                     <<ScaledConfidence(fnIn[expected[j].from])>>
        /\ fnOut.result # None
           => \A j \in 1..Len(fnOut.result.offers) :
                 DOMAIN fnOut.result.offers[j]
                 \cap {"margin", "trustScore", "isEligible"} = {}

\* Two raw offers were mapped to three entries, the first offer to a pickup
\* and a delivery entry with no confidence given, and a response came out.
C23_TwoEntriesFromOneOffer ==
    /\ fnPc = "done"
    /\ Len(fnIn) = 2
    /\ Len(fnOut.mapped) = 3
    /\ fnIn[1].confidence = Nul
    /\ fnOut.mapped[1].availabilityType = "pickup"
    /\ fnOut.mapped[2].availabilityType = "delivery"
    /\ fnOut.mapped[2].trustScore = <<100>>
    /\ fnOut.result # None

\* the offer of a response is the entry of the given type made from the raw
\* offer at position i
ComesFrom(offer, raw, i, type) ==
    /\ offer.availabilityType = type
    /\ raw[i][type] # None
    /\ raw[i][type].available
    /\ offer.id = (IF raw[i].id \notin {Undef, ""} THEN raw[i].id
                   ELSE "backend-" \o ToString(i - 1)
                        \o (IF type = "pickup" THEN "-p" ELSE "-d"))

\* C24: every offer of a proxied response comes from a raw offer whose
\* scaled confidence is at least 80, whose eta_min for the offer's type is
\* at most 480 (one without eta_min counting as 0, as it is mapped) and, for
\* pickup, whose distance in miles is at most MAX_DISTANCE_MILES; and the
\* offers are in the prioritizer's order.
C24_ProxyGuardedAndOrdered ==
    (fnPc = "done" /\ fnOut.result # None) =>
    LET list == fnOut.result.offers
    IN  /\ \A j \in 1..Len(list) :
              \E i \in 1..Len(fnIn), type \in {"pickup", "delivery"} :
                 /\ ComesFrom(list[j], fnIn, i, type)
                 /\ ScaledConfidence(fnIn[i]) >= MIN_TRUST_SCORE
                 /\ fnIn[i][type].eta_min # Nul
                    => fnIn[i][type].eta_min[1] <= MAX_ETA_MINUTES
                 /\ (type = "pickup" /\ fnIn[i].distance_km # Nul)
                    => KmToMiles(fnIn[i].distance_km[1])
                           <= Miles(MAX_DISTANCE_MILES)
        /\ \A i, j \in 1..Len(list) :
              i < j => ~HasToPrecede(list[j], list[i])


---------------------------------------------------------------------------
(* LOOKUP_PRODUCT *)

\* Requests without a ZIP whose identifiers record is: the seeded asin; an
\* asin and a sku the repository has not seen; a new asin with the seeded
\* gtin; and a record whose only key is brand (the schema takes a record of
\* strings under any keys).
LookupRequests ==
    {[MakeRequest([asin |-> "B000000NEW"], Undef, Undef)
         EXCEPT !.identifiers = ids] :
        ids \in {[asin |-> "B0BXQBHL5D"], [asin |-> "B000000NEW"],
                 [sku |-> "SKU-1"],
                 [asin |-> "B000000NEW", gtin |-> "027242920156"],
                 [brand |-> "Sony"]}}

NextLookup ==
    \/ \E t \in Instants : Tick(t)
    \/ \E request \in LookupRequests, sweep \in BOOLEAN :
           Resolve(request, sweep)

SpecLookup == Init /\ [][NextLookup]_vars

\* one of the five identifier fields supplied in the request equals the
\* product's field of the same name
MatchesOnIdentifier(product, request) ==
    \E f \in {"gtin", "upc", "ean", "asin", "sku"}
             \cap DOMAIN request.identifiers :
        product[f] = request.identifiers[f]

C25_Step ==
    /\ (Arrives /\ FullResolution) =>
          IF \E i \in 1..Len(products) :
                MatchesOnIdentifier(products[i], ArrivedRequest)
          THEN products' = products
          ELSE /\ Len(products') = Len(products) + 1
               /\ SubSeq(products', 1, Len(products)) = products
               /\ LET created == products'[Len(products')]
                  IN  /\ created.brand = "Unknown"
                      /\ created.title = "Unknown Product"
                      /\ MatchesOnIdentifier(created, ArrivedRequest)
    /\ Len(products') >= Len(products)
    /\ SubSeq(products', 1, Len(products)) = products

\* C25: a resolution that misses the cache uses a stored product iff one
\* of the request's gtin, upc, ean, asin, sku equals the product's field of
\* that name, and then creates none; otherwise it creates exactly one, with
\* brand 'Unknown' and title 'Unknown Product' (the requests give neither)
\* and the request's identifiers; and no product is ever deleted.
C25_LookupProduct == [][C25_Step]_vars

---------------------------------------------------------------------------
(* The local success path *)

\* Offers an ingestion can add for the seeded product: two pickup offers
\* with the ETA of the first seeded offer, one with a price that is no
\* number and one at $1.00, and a delivery offer that names no store.
LocalTemplates ==
    {[productId |-> RowId("product", 1), storeId |-> "target",
      price |-> <<"N", "/", "A">>,
      availabilityType |-> "pickup", etaMinutes |-> <<120>>,
      distanceMiles |-> <<Miles(2)>>, inStock |-> <<TRUE>>,
      margin |-> <<50>>, trustScore |-> <<90>>, isEligible |-> <<TRUE>>],
     [productId |-> RowId("product", 1), storeId |-> "walmart",
      price |-> <<"$", "1", ".", "0", "0">>,
      availabilityType |-> "pickup", etaMinutes |-> <<120>>,
      distanceMiles |-> <<Miles(2)>>, inStock |-> <<TRUE>>,
      margin |-> <<50>>, trustScore |-> <<90>>, isEligible |-> <<TRUE>>],
     [productId |-> RowId("product", 1), storeId |-> Undef,
      price |-> <<"$", "5", ".", "0", "0">>,
      availabilityType |-> "delivery", etaMinutes |-> <<45>>,
      distanceMiles |-> <<0>>, inStock |-> <<TRUE>>,
      margin |-> <<0>>, trustScore |-> <<99>>, isEligible |-> <<TRUE>>]}

NextLocal ==
    \/ \E t \in Instants : Tick(t)
    \/ \E request \in Requests, sweep \in BOOLEAN : Resolve(request, sweep)
    \/ \E insert \in LocalTemplates : IngestOffer(insert)

SpecLocal == Init /\ [][NextLocal]_vars

\* the stored offers of the request's product that pass all guards and
\* whose store exists
ServableOffers(request) ==
    LET product == getProductByIdentifiers(products', request.identifiers)
    IN  {o \in Range(offers) :
            /\ o.productId = product.id
            /\ SatisfiesGuards(o)
            /\ getStore(o.storeId) # None}

C26_Step ==
    (/\ Arrives
     /\ FullResolution
     /\ LocalEligibleOffers(ArrivedRequest) # <<>>)
    => LET body == lastResp'.body
           k == generateCacheKey(ArrivedRequest)
       IN  /\ lastResp'.seq = nreq'
           /\ lastResp'.status = 200
           /\ body.eligible
           /\ ~body.cached
           /\ {body.offers[i].id : i \in 1..Len(body.offers)}
                  = {o.id : o \in ServableOffers(ArrivedRequest)}
           /\ \A i, j \in 1..Len(body.offers) :
                 body.offers[i].id = body.offers[j].id => i = j
           /\ \A i \in 1..Len(body.offers) :
                 \E o \in ServableOffers(ArrivedRequest) :
                    /\ o.id = body.offers[i].id
                    /\ o.price = body.offers[i].price
                    /\ o.availabilityType = body.offers[i].availabilityType
                    /\ o.etaMinutes = <<body.offers[i].etaMinutes>>
           /\ \A i, j \in 1..Len(body.offers) :
                 i < j => ~HasToPrecede(body.offers[j], body.offers[i])
           /\ k \in DOMAIN resolveCache'
           /\ resolveCache'[k].response = body
           /\ Len(audit') = Len(audit) + 2
           /\ audit'[Len(audit')].success
           /\ audit'[Len(audit')].response = body

\* C26: a resolution whose guard-filtered local list is not empty answers
\* 200 with eligible true and cached false; its offers are the stored offers
\* of the product that pass all guards and whose store exists, each once, in
\* the prioritizer's order; the response is the cache entry of the request's
\* fingerprint, and the last audit record is a success record that carries
\* it.
C26_LocalSuccess == [][C26_Step]_vars

---------------------------------------------------------------------------
(* Overlapping resolutions of one fingerprint *)

\* the handler of `call` resumes and answers in the step
Resumes(call) == call \in inflight /\ call \notin inflight'

C27_Step ==
    /\ (/\ Arrives
        /\ \E call \in inflight :
              call.cacheKey = generateCacheKey(ArrivedRequest)
        /\ ~FreshEntry(resolveCache, generateCacheKey(ArrivedRequest), now))
       => /\ FullResolution
          /\ \/ \E call \in inflight' : call.seq = nreq'
             \/ lastResp'.seq = nreq' /\ ~lastResp'.body.cached
    /\ \A call \in inflight :
          Resumes(call)
          => /\ lastResp'.seq = call.seq
             /\ lastResp'.status = 200
             /\ DOMAIN lastResp'.body
                    = {"eligible", "offers", "cached", "timestamp"}
             /\ ~lastResp'.body.cached
             /\ lastResp'.body.eligible <=> lastResp'.body.offers # <<>>
             /\ IF lastResp'.body.eligible
                THEN resolveCache'[call.cacheKey].response = lastResp'.body
                ELSE resolveCache' = resolveCache
    /\ \A k \in DOMAIN resolveCache' :
          EntryWritten(k) => /\ resolveCache'[k].response = lastResp'.body
                             /\ lastResp' # lastResp

\* C27: a request whose fingerprint is being resolved by a handler that
\* waits for the backend, and has no live entry, runs the full resolution
\* itself; each of the handlers is answered 200 with a response of the four
\* fields and cached false; and the entry of the fingerprint is always the
\* response of the handler that stored last.
C27_NoSingleFlight == [][C27_Step]_vars

\* Two requests of one fingerprint both went to the backend and both got
\* offers; the one that arrived first answered last, and the entry is its
\* response.
C27_BothResolvedFirstStoredLast ==
    /\ nreq = 2
    /\ inflight = {}
    /\ Len(audit) = 4
    /\ audit[1].identifiers = audit[2].identifiers
    /\ audit[1].zipCode = audit[2].zipCode
    /\ audit[3].success /\ audit[4].success
    /\ audit[3].response # audit[4].response
    /\ lastResp.seq = 1
    /\ resolveCache[generateCacheKey(lastResp.request)].response
           = lastResp.body

---------------------------------------------------------------------------
(* Resolutions of different fingerprints that wait for the backend *)

\* Requests that go to the backend: two products the repository has not
\* seen, under one ZIP.
BackendBoundRequests ==
    {MakeRequest([asin |-> "B000000NEW"], Undef, "10001"),
     MakeRequest([asin |-> "B00000OTHR"], Undef, "10001")}

\* (The clock makes one jump, past the TTL of what was stored before it.)
NextIsolation ==
    \/ Tick(CACHE_TTL + 1)
    \/ \E request \in BackendBoundRequests, sweep \in BOOLEAN :
           Resolve(request, sweep)
    \/ \E call \in inflight, backendOffers \in BackendReplies :
           BackendReturn(call, backendOffers)

SpecIsolation == Init /\ [][NextIsolation]_vars

\* the audit rows written in the step, without their ids
RowsWritten ==
    [i \in 1..(Len(audit') - Len(audit)) |->
        [f \in DOMAIN audit'[Len(audit) + i] \ {"id"} |->
            audit'[Len(audit) + i][f]]]

\* what the handler of `call` produces when its adapter returns `proxied`:
\* the answer, the audit rows and the entry of its key
ProducedBy(call, proxied) ==
    IF proxied # None
    THEN /\ lastResp' = [seq |-> call.seq, request |-> call.request,
                         path |-> "proxy", status |-> 200, body |-> proxied]
         /\ RowsWritten =
                <<[identifiers |-> call.request.identifiers,
                   platform |-> call.request.platform,
                   zipCode |-> call.request.zip,
                   response |-> proxied, success |-> TRUE]>>
         /\ resolveCache'[call.cacheKey]
                = [response |-> proxied, timestamp |-> call.now]
    ELSE /\ lastResp'.seq = call.seq
         /\ lastResp'.status = 200
         /\ lastResp'.body = [eligible |-> FALSE, offers |-> <<>>,
                              cached |-> FALSE, timestamp |-> now]
         /\ RowsWritten = <<>>
         /\ call.cacheKey \in DOMAIN resolveCache
               => /\ call.cacheKey \in DOMAIN resolveCache'
                  /\ resolveCache'[call.cacheKey]
                         = resolveCache[call.cacheKey]
         /\ call.cacheKey \notin DOMAIN resolveCache
               => call.cacheKey \notin DOMAIN resolveCache'

C28_Step ==
    \A call \in inflight :
       Resumes(call)
       => /\ \E backendOffers \in BackendReplies :
                ProducedBy(call, ProxiedResponse(backendOffers, now))
          /\ \A other \in inflight \ {call} : other \in inflight'
          /\ \A k \in (DOMAIN resolveCache \cup DOMAIN resolveCache')
                      \ {call.cacheKey} :
                /\ k \in DOMAIN resolveCache
                /\ k \in DOMAIN resolveCache'
                /\ resolveCache'[k] = resolveCache[k]
          /\ UNCHANGED <<products, offers>>

\* C28: what a handler that resumes produces (its answer, its audit rows,
\* the entry of its key) is given by its own request and its own adapter's
\* result; it leaves the other pending handlers pending and every other
\* entry as it is; and while handlers wait for the backend every request can
\* be taken, with the sweep.
C28_BackendIsolation ==
    /\ [][C28_Step]_vars
    /\ [](OpsDone(nreq, offers) < MaxOps
          => \A request \in BackendBoundRequests :
                ENABLED Resolve(request, TRUE))

\* With the first request still waiting for the backend and the second one
\* answered not-eligible, the third, of another fingerprint, got offers and
\* its entry.
C28_SucceededBesideHungAndFailed ==
    /\ nreq = 3
    /\ \E call \in inflight : call.seq = 1
    /\ Len(audit) = 4
    /\ ~audit[3].success
    /\ audit[4].success
    /\ lastResp.seq = 3
    /\ lastResp.path = "proxy"
    /\ DOMAIN resolveCache = {generateCacheKey(lastResp.request)}
    /\ \A call \in inflight :
          call.cacheKey # generateCacheKey(lastResp.request)

---------------------------------------------------------------------------
(* Waiting for the backend *)

\* A fetch of the adapter settles, the loops ending with backendOffers: the
\* pending call now carries what its handler will resume with.  (fetch is
\* called with no signal and no timer is set beside it, so nothing but the
\* backend's answer or a network error settles it.)
BackendSettles(call, backendOffers) ==
    /\ call \in inflight
    /\ "reply" \notin DOMAIN call
    /\ inflight' = (inflight \ {call}) \cup
           {[seq |-> call.seq, request |-> call.request,
             cacheKey |-> call.cacheKey, now |-> call.now,
             reply |-> backendOffers]}
    /\ UNCHANGED <<now, nreq, resolveCache, products, offers, audit,
                   lastResp>>
    /\ UNCHANGED fnVars
    /\ UNCHANGED workerVars

\* The event loop runs the continuation of a handler whose fetch settled.
HandlerResumes ==
    \E call \in inflight :
       /\ "reply" \in DOMAIN call
       /\ BackendReturn(call, call.reply)

NextWait ==
    \/ Tick(CACHE_TTL + 1)
    \/ \E request \in BackendBoundRequests, sweep \in BOOLEAN :
           Resolve(request, sweep)
    \/ \E call \in inflight, backendOffers \in BackendReplies :
           BackendSettles(call, backendOffers)
    \/ HandlerResumes

\* A continuation that is ready is run; requests, the clock and the
\* backend's answers come as they may.
SpecWait == Init /\ [][NextWait]_vars /\ WF_vars(HandlerResumes)

\* C29: every request whose handler went to the backend is answered in the
\* end.
C29_BoundedBackendWait ==
    \A seq \in 1..MaxOps :
       (\E call \in inflight : call.seq = seq)
       ~> ~(\E call \in inflight : call.seq = seq)

---------------------------------------------------------------------------
(* The sweep *)

\* the entries a lookup at time t would serve
Servable(cache, t) ==
    [k \in {x \in DOMAIN cache : FreshEntry(cache, x, t)} |-> cache[k]]

\* the sweep at this instant deletes no entry but those older than the TTL,
\* none of which a lookup would serve
SweepSparesServable ==
    \A k \in DOMAIN resolveCache :
       k \notin DOMAIN cleanExpiredCache(resolveCache, now)
       => /\ now - resolveCache[k].timestamp > CACHE_TTL
          /\ ~FreshEntry(resolveCache, k, now)

\* a request handled with the sweep, or without it, could have been handled
\* the other way with the same answer, audit records, products, pending
\* calls and servable entries
C30_Step ==
    \A request \in Requests, sweep \in BOOLEAN :
       Resolve(request, sweep)
       => \E sent \in {lastResp'}, logged \in {audit'},
             pending \in {inflight'}, table \in {products'},
             live \in {Servable(resolveCache', now')} :
             ENABLED (/\ Resolve(request, ~sweep)
                      /\ lastResp' = sent
                      /\ audit' = logged
                      /\ inflight' = pending
                      /\ products' = table
                      /\ Servable(resolveCache', now') = live)

\* C30: the sweep deletes only entries older than the TTL and none that a
\* lookup at the same instant would serve, and a request's answer, audit
\* records and the servable entries after it are the same with the sweep
\* and without it.
C30_SweepAdvisory == []SweepSparesServable /\ [][C30_Step]_vars

\* the cache key of the request an audit row records
KeyOfRow(row) ==
    generateCacheKey([identifiers |-> row.identifiers,
                      platform |-> row.platform, variant |-> Undef,
                      zip |-> IF row.zipCode = NullStr THEN Undef
                              ELSE row.zipCode])

\* A request was handled with the sweep, which deleted the expired entry of
\* an earlier resolution, and the cache holds a servable entry.
C30_SweptBesideLiveEntry ==
    /\ \E i \in 1..Len(audit) :
          /\ audit[i].success
          /\ KeyOfRow(audit[i]) \notin DOMAIN resolveCache
    /\ \E k \in DOMAIN resolveCache : FreshEntry(resolveCache, k, now)

---------------------------------------------------------------------------
(* The service worker's cache when it is full *)

\* The result a fetch left to be cached.
CachedData ==
    [eligible |-> TRUE,
     offers |-> <<[id |-> "o-1", availabilityType |-> "pickup",
                   distanceMiles |-> Miles(2)]>>,
     cached |-> FALSE]

\* The entries stored after the first two, one instant after the other.
LaterEntries(n) ==
    [i \in 1..n |-> [key |-> "k-" \o ToString(i), data |-> CachedData,
                     timestamp |-> 3 + i]]

\* The Maps setCachedResult finds: full, and one and two entries short.
\* Map.set on a key the Map holds leaves the key where it was inserted, so
\* the first key's entry can be the later one of the first two: two fetches
\* for one key, the second settling after another key was stored.
WorkerCaches ==
    {<<[key |-> "a", data |-> CachedData, timestamp |-> ta],
       [key |-> "b", data |-> CachedData, timestamp |-> tb]>>
        \o LaterEntries(n) :
        ta \in {1, 2, 3}, tb \in {1, 2, 3},
        n \in {MAX_CACHE_ENTRIES - 4, MAX_CACHE_ENTRIES - 3,
               MAX_CACHE_ENTRIES - 2}}

\* The keys it is called with: the first, the second, a later one, a new one.
EvictInit ==
    /\ ServerInit
    /\ WorkerInit
    /\ fnIn \in [cache : WorkerCaches, cacheKey : {"a", "b", "k-5", "new"}]
    /\ fnOrig = fnIn
    /\ fnOut = <<>>
    /\ fnPc = "ready"

\* setCachedResult(cacheKey, data) at the time of the call
StoreResult ==
    /\ fnPc = "ready"
    /\ fnOut' = setCachedResult(fnIn.cache, fnIn.cacheKey, CachedData,
                                MAX_CACHE_ENTRIES + 2)
    /\ fnPc' = "done"
    /\ UNCHANGED <<fnIn, fnOrig>>
    /\ UNCHANGED serverVars
    /\ UNCHANGED workerVars

SpecEvict == EvictInit /\ [][StoreResult]_vars

\* cache without its i-th entry
Without(cache, i) ==
    [j \in 1..(Len(cache) - 1) |-> IF j < i THEN cache[j] ELSE cache[j + 1]]

\* the keys of a Map and what it holds for each
Held(cache) == {<<cache[i].key, cache[i].data>> : i \in 1..Len(cache)}

\* no entry of cache was stored before its i-th
StoredLongestAgo(cache, i) ==
    \A j \in 1..Len(cache) : cache[i].timestamp <= cache[j].timestamp

\* C31: the service worker's cache never holds more than MAX_CACHE_ENTRIES
\* entries, and setCachedResult on a full cache evicts exactly one entry, one
\* stored longest ago, then inserts.
C31_BoundedAndEvictsOldest ==
    /\ Len(workerCache) <= MAX_CACHE_ENTRIES
    /\ fnPc = "done"
       => /\ Len(fnOut) <= MAX_CACHE_ENTRIES
          /\ Len(fnIn.cache) >= MAX_CACHE_ENTRIES
             => \E i \in 1..Len(fnIn.cache) :
                   /\ StoredLongestAgo(fnIn.cache, i)
                   /\ Held(fnOut) =
                         Held(Without(fnIn.cache, i))
                         \cup {<<fnIn.cacheKey, CachedData>>}
                   /\ Len(fnOut) = Cardinality(Held(fnOut))

---------------------------------------------------------------------------
(* LocalStockCache: the content script's cache in sessionStorage *)

CACHE_PREFIX == "localstock_"
MAX_ENTRIES == 200

\* A key of sessionStorage: what startsWith(CACHE_PREFIX) sees of it, and
\* the rest.
StorageKey(prefix, rest) == <<prefix, rest>>

\* key?.startsWith(this.CACHE_PREFIX)
HasCachePrefix(key) == key[1] = CACHE_PREFIX

\* JSON.stringify(cacheEntry), and a stored string JSON.parse throws on
Stringified(cacheEntry) == [json |-> TRUE, entry |-> cacheEntry]
Unparseable == [json |-> FALSE]

\* sessionStorage.getItem(key): the value, or null
getItem(storage, key) ==
    IF \E i \in 1..Len(storage) : storage[i].key = key
    THEN storage[CHOOSE i \in 1..Len(storage) : storage[i].key = key].value
    ELSE None

\* sessionStorage.setItem(key, value): a held key keeps its index
setItem(storage, key, value) ==
    IF \E i \in 1..Len(storage) : storage[i].key = key
    THEN [i \in 1..Len(storage) |->
             IF storage[i].key = key THEN [key |-> key, value |-> value]
             ELSE storage[i]]
    ELSE Append(storage, [key |-> key, value |-> value])

\* sessionStorage.removeItem(key): the keys after it move down by one
removeItem(storage, key) == SelectSeq(storage, LAMBDA e : e.key # key)

\* The entries the first loop of cleanup() removes when it reads them: with
\* the prefix, and unparseable or expired.
Removable(e, t) ==
    HasCachePrefix(e.key) /\ (~e.value.json \/ t > e.value.entry.ttl)

\* The first loop of cleanup(), told by the positions the storage had when
\* it began. removeItem at index i brings the next item to index i, which i++
\* then passes over: the loop reads the item at position p unless it removed
\* the one before, so of consecutive removable items starting at position q
\* it removes those at q, q + 2, ...
Removed(storage, p, t) ==
    /\ Removable(storage[p], t)
    /\ LET q == CHOOSE x \in 1..p :
                    /\ \A r \in x..p : Removable(storage[r], t)
                    /\ x = 1 \/ ~Removable(storage[x - 1], t)
       IN  (p - q) % 2 = 0

\* The storage the loop leaves and the keys array.
CleanupScan(storage, t) ==
    CHOOSE scanned \in
        {[storage |-> [i \in 1..Len(left) |-> left[i].item],
          keys |-> [i \in 1..Len(pushed) |->
                       [key |-> pushed[i].item.key,
                        timestamp |->
                            pushed[i].item.value.entry.timestamp]]] :
            <<left, pushed>> \in
                {<<SelectSeq(seen, LAMBDA x : ~x.removed),
                   SelectSeq(seen, LAMBDA x : x.pushed)>> :
                    seen \in
                        {[p \in 1..Len(storage) |->
                             [item |-> storage[p],
                              removed |-> Removed(storage, p, t),
                              pushed |->
                                  /\ HasCachePrefix(storage[p].key)
                                  /\ ~Removable(storage[p], t)
                                  /\ p = 1
                                     \/ ~Removed(storage, p - 1, t)]]}}} :
        TRUE

\* The entries a sort by newest first would put before the slice's end.
ToRemoveNewest(keys) ==
    {keys[i].key : i \in
        {x \in 1..Len(keys) :
            Cardinality({j \in 1..Len(keys) :
                            \/ keys[j].timestamp > keys[x].timestamp
                            \/ /\ keys[j].timestamp = keys[x].timestamp
                               /\ j < x})
            < Len(keys) - MAX_ENTRIES}}

\* keys.sort((a, b) => a.timestamp - b.timestamp) then slice(0, length -
\* MAX_ENTRIES): the entries with fewer than that many before them in the
\* order of timestamps, index order among equal ones.
ToRemove(keys) ==
    {keys[i].key : i \in
        {x \in 1..Len(keys) :
            Cardinality({j \in 1..Len(keys) :
                            \/ keys[j].timestamp < keys[x].timestamp
                            \/ /\ keys[j].timestamp = keys[x].timestamp
                               /\ j < x})
            < Len(keys) - MAX_ENTRIES}}

\* cleanup() at time t
cleanup(storage, t) ==
    CHOOSE left \in
        {IF Len(scanned.keys) > MAX_ENTRIES
         THEN CHOOSE kept \in
                  {SelectSeq(scanned.storage,
                             LAMBDA e : e.key \notin toRemove) :
                      toRemove \in {ToRemove(scanned.keys)}} : TRUE
         ELSE scanned.storage :
            scanned \in {CleanupScan(storage, t)}} : TRUE

\* clear(): the keys collected first, then removed
clear(storage) == SelectSeq(storage, LAMBDA e : ~HasCachePrefix(e.key))

\* An entry set(key, data, 5) wrote at time t.
EntryOf(data, ttlMinutes, t) ==
    [data |-> data, ttl |-> t + (ttlMinutes * 60 * 1000), timestamp |-> t]

\* The result the content script caches.
StockData == [eligible |-> TRUE, offers |-> <<>>, cached |-> FALSE]

\* The entries written before the page's scripts are observed, the i-th one
\* i milliseconds after the first.
EarlierEntry(i) ==
    [key |-> StorageKey(CACHE_PREFIX, "u" \o ToString(i)),
     value |-> Stringified(EntryOf(CachedData, 10, i - 250))]

\* What the page's sessionStorage holds at the start: a key of the page's
\* own, one entry that is expired, unparseable or the oldest live one, and
\* n live entries, the oldest of them in the middle of the index order.
SessionStorages ==
    {<<[key |-> StorageKey("", "theme"), value |-> Unparseable]>>}
    \cup
    {<<[key |-> StorageKey("", "theme"), value |-> Unparseable],
       [key |-> StorageKey(CACHE_PREFIX, "x"), value |-> x]>>
        \o [i \in 1..n |-> EarlierEntry(((i + 99) % n) + 1)] :
        x \in {Unparseable,
               Stringified(EntryOf(CachedData, 5, 0 - 300001)),
               Stringified(EntryOf(CachedData, 5, 0 - 250))},
        n \in {MAX_ENTRIES - 1, MAX_ENTRIES + 1}}

\* The keys the content script asks for; it sets the second.
StockKeys ==
    {StorageKey(CACHE_PREFIX, "x"), StorageKey(CACHE_PREFIX, "new")}

\* The calls of the cache's methods that are followed.
MaxCalls == 2

\* fnOut is the sessionStorage and the value the last call returned, fnIn the
\* arguments and time of the last set of each key, fnOrig the number of
\* calls made.
SessionInit ==
    /\ ServerInit
    /\ WorkerInit
    /\ fnIn = <<>>
    /\ fnOrig = 0
    /\ fnOut \in [storage : SessionStorages, ret : {None}]
    /\ fnPc = "ready"

\* set(key, data, ttlMinutes): setItem, cleanup() one time in ten. A setItem
\* that throws (quota) returns false and leaves the storage alone.
StockSet(key, data, ttlMinutes, quota, sweep) ==
    /\ fnOrig < MaxCalls
    /\ fnOrig' = fnOrig + 1
    /\ IF quota
       THEN /\ fnOut' = [fnOut EXCEPT !.ret = <<FALSE>>]
            /\ UNCHANGED fnIn
       ELSE LET written == setItem(fnOut.storage, key,
                                   Stringified(EntryOf(data, ttlMinutes,
                                                       now)))
            IN  /\ fnOut' = [storage |-> IF sweep THEN cleanup(written, now)
                                         ELSE written,
                             ret |-> <<TRUE>>]
                /\ fnIn' = [k \in DOMAIN fnIn \cup {key} |->
                               IF k = key
                               THEN [data |-> data, at |-> now,
                                     ttlMinutes |-> ttlMinutes]
                               ELSE fnIn[k]]
    /\ fnPc' = "set"
    /\ UNCHANGED serverVars
    /\ UNCHANGED workerVars

\* get(key)
StockGet(key) ==
    /\ fnOrig < MaxCalls
    /\ fnOrig' = fnOrig + 1
    /\ LET cached == getItem(fnOut.storage, key)
       IN  fnOut' =
               IF cached = None
               THEN [fnOut EXCEPT !.ret = None]
               ELSE IF ~cached.json
               THEN [storage |-> removeItem(fnOut.storage, key),
                     ret |-> None]
               ELSE IF now > cached.entry.ttl
               THEN [storage |-> removeItem(fnOut.storage, key),
                     ret |-> None]
               ELSE [fnOut EXCEPT !.ret = cached.entry.data]
    /\ fnPc' = "get"
    /\ UNCHANGED fnIn
    /\ UNCHANGED serverVars
    /\ UNCHANGED workerVars

\* cleanup() called directly
StockCleanup ==
    /\ fnOrig < MaxCalls
    /\ fnOrig' = fnOrig + 1
    /\ fnOut' = [storage |-> cleanup(fnOut.storage, now), ret |-> None]
    /\ fnPc' = "cleanup"
    /\ UNCHANGED fnIn
    /\ UNCHANGED serverVars
    /\ UNCHANGED workerVars

\* clear()
StockClear ==
    /\ fnOrig < MaxCalls
    /\ fnOrig' = fnOrig + 1
    /\ fnOut' = [storage |-> clear(fnOut.storage), ret |-> <<TRUE>>]
    /\ fnPc' = "clear"
    /\ UNCHANGED fnIn
    /\ UNCHANGED serverVars
    /\ UNCHANGED workerVars

NextSession ==
    \/ \E t \in {CACHE_TTL, CACHE_TTL + 1} : Tick(t)
    \/ \E quota \in BOOLEAN, sweep \in BOOLEAN :
           StockSet(StorageKey(CACHE_PREFIX, "new"), StockData, 5, quota,
                    sweep)
    \/ \E key \in StockKeys \cup {StorageKey("", "theme")} : StockGet(key)
    \/ StockCleanup
    \/ StockClear

SpecSession == SessionInit /\ [][NextSession]_vars

\* the keys a storage holds
KeysOf(storage) == {storage[i].key : i \in 1..Len(storage)}

\* the entries with the prefix that parse and have not expired
LiveEntries(storage) ==
    {i \in 1..Len(storage) :
        /\ HasCachePrefix(storage[i].key)
        /\ storage[i].value.json
        /\ ~(now > storage[i].value.entry.ttl)}

\* more than MAX_ENTRIES live entries, and fewer older ones than the surplus
OldestSurplus(storage, i) ==
    /\ i \in LiveEntries(storage)
    /\ Cardinality(LiveEntries(storage)) > MAX_ENTRIES
    /\ Cardinality({j \in LiveEntries(storage) :
                       storage[j].value.entry.timestamp
                       < storage[i].value.entry.timestamp})
       < Cardinality(LiveEntries(storage)) - MAX_ENTRIES

\* what cleanup() made of a storage: the entries left are as they were, and
\* an entry gone had the prefix and was unparseable, expired or of the
\* oldest surplus
CleanedUp(before, after) ==
    \E held \in {KeysOf(after)} :
       /\ after = SelectSeq(before, LAMBDA e : e.key \in held)
       /\ \A i \in 1..Len(before) :
             before[i].key \notin held
             => /\ HasCachePrefix(before[i].key)
                /\ \/ ~before[i].value.json
                   \/ now > before[i].value.entry.ttl
                   \/ OldestSurplus(before, i)

\* get(key) of a key that was set and is held: the data until the time of
\* the set plus the minutes, after it null and the key removed
GetAfterSet(key) ==
    (key \in DOMAIN fnIn /\ key \in KeysOf(fnOut.storage))
    => IF now <= fnIn[key].at + (fnIn[key].ttlMinutes * 60 * 1000)
       THEN /\ fnOut'.ret = fnIn[key].data
            /\ fnOut'.storage = fnOut.storage
       ELSE /\ fnOut'.ret = None
            /\ fnOut'.storage = removeItem(fnOut.storage, key)

C32_Step ==
    /\ \A key \in StockKeys \cup {StorageKey("", "theme")} :
          (fnPc' = "get" /\ StockGet(key)) => GetAfterSet(key)
    /\ \A key \in StockKeys, sweep \in BOOLEAN :
          (/\ fnPc' = "set"
           /\ fnOut'.ret = <<TRUE>>
           /\ StockSet(key, StockData, 5, FALSE, sweep))
          => \E written \in
                 {setItem(fnOut.storage, key,
                          Stringified(EntryOf(StockData, 5, now)))} :
                /\ getItem(fnOut'.storage, key)
                      = Stringified(EntryOf(StockData, 5, now))
                /\ IF sweep THEN CleanedUp(written, fnOut'.storage)
                   ELSE fnOut'.storage = written
    /\ (fnPc' = "cleanup" /\ StockCleanup)
       => CleanedUp(fnOut.storage, fnOut'.storage)
    /\ (fnPc' = "clear" /\ StockClear)
       => SelectSeq(fnOut'.storage, LAMBDA e : ~HasCachePrefix(e.key))
             = SelectSeq(fnOut.storage, LAMBDA e : ~HasCachePrefix(e.key))

\* C32: get(key) after set(key, data, ttlMinutes) returns data until the time
\* of the set plus ttlMinutes, and later returns null and removes the entry;
\* cleanup(), called directly or by a set, removes only entries with the
\* prefix that are expired or unparseable, or the oldest surplus above
\* MAX_ENTRIES live entries; cleanup() and clear() remove no key without the
\* prefix.
C32_SessionCache == [][C32_Step]_vars

\* A key that was set is asked for after its time: null, and the key gone.
C32_ExpiredOnGet ==
    /\ fnPc = "get"
    /\ \E key \in DOMAIN fnIn :
          /\ now > fnIn[key].at + (fnIn[key].ttlMinutes * 60 * 1000)
          /\ key \notin KeysOf(fnOut.storage)
          /\ fnOut.ret = None

---------------------------------------------------------------------------
(* Requests for different products *)

\* Requests without an asin and without a ZIP: two that name a sku each, and
\* two that carry the seeded product's code as upc and as ean.
CodeRequests ==
    {[MakeRequest([asin |-> "B000000NEW"], Undef, Undef)
         EXCEPT !.identifiers = ids] :
        ids \in {[sku |-> "SKU-1"], [sku |-> "SKU-2"],
                 [upc |-> "027242920156"], [ean |-> "027242920156"]}}

NextCodes ==
    \/ \E t \in Instants : Tick(t)
    \/ \E request \in CodeRequests, sweep \in BOOLEAN :
           Resolve(request, sweep)

SpecCodes == Init /\ [][NextCodes]_vars

\* the Product a request's identifiers resolve to, None when there is none
ProductFor(identifiers) == getProductByIdentifiers(products, identifiers)

\* two requests whose identifiers resolve to two products have two keys
DistinctProductsDistinctKeys ==
    \A r1 \in CodeRequests, r2 \in CodeRequests :
       (/\ ProductFor(r1.identifiers) # None
        /\ ProductFor(r2.identifiers) # None
        /\ ProductFor(r1.identifiers).id # ProductFor(r2.identifiers).id)
       => generateCacheKey(r1) # generateCacheKey(r2)

\* a request answered from the cache gets a response that was resolved for
\* the Product its identifiers resolve to
C33_Step ==
    (Arrives /\ AnsweredFromCache)
    => \A i \in 1..Len(audit) :
          (/\ audit[i].success
           /\ audit[i].response
                 = resolveCache[generateCacheKey(ArrivedRequest)].response)
          => ProductFor(audit[i].identifiers)
                = ProductFor(ArrivedRequest.identifiers)

\* C33: requests whose identifiers resolve to different Products have
\* different cache keys, and a cache hit returns a response that was resolved
\* for the requested Product.
C33_KeysSeparateProducts ==
    []DistinctProductsDistinctKeys /\ [][C33_Step]_vars

---------------------------------------------------------------------------
(* The cache after a failed resolution *)

C34_Step ==
    (Arrives /\ lastResp'.seq = nreq' /\ lastResp'.status = 500)
    => NoEntryAddedOrOverwritten

\* C34: a resolve request that is answered with status 500 adds no entry to
\* the server's cache and overwrites none, also when what failed was the
\* write of the success audit record.
C34_FailureLeavesCache == [][C34_Step]_vars

---------------------------------------------------------------------------
(* The same request again *)

\* Requests sent more than once: identifiers with an asin, with none of the
\* five identifier keys, and with no key at all.
RepeatedRequests ==
    {[MakeRequest([asin |-> "B000000NEW"], Undef, Undef)
         EXCEPT !.identifiers = ids] :
        ids \in {[asin |-> "B000000NEW"], [mpn |-> "WH1000XM5"], <<>>}}

NextRepeat ==
    \/ \E t \in Instants : Tick(t)
    \/ \E request \in RepeatedRequests, sweep \in BOOLEAN :
           Resolve(request, sweep)

SpecRepeat == Init /\ [][NextRepeat]_vars

\* a request that was resolved before creates no Product
C35_Step ==
    (/\ Arrives
     /\ \E i \in 1..Len(audit) :
           audit[i].identifiers = ArrivedRequest.identifiers)
    => products' = products

\* C35: the same valid request sent again, one call after the other, creates
\* no second Product, whatever its identifiers map holds.
C35_OneProductPerRequest == [][C35_Step]_vars

---------------------------------------------------------------------------
(* Offer ids *)

\* no two offers of the list have one id
DistinctIds(list) ==
    \A i \in 1..Len(list), j \in 1..Len(list) :
       list[i].id = list[j].id => i = j

\* C36: the offers of one resolve response, local or proxied, have pairwise
\* distinct ids, also when a raw backend offer with an id of its own is
\* available for pickup and for delivery.
C36_DistinctOfferIds ==
    /\ lastResp.status = 200 => DistinctIds(lastResp.body.offers)
    /\ (fnPc = "done" /\ fnOut.result # None)
       => DistinctIds(fnOut.result.offers)

---------------------------------------------------------------------------
(* DELETE /api/cache while handlers wait for the backend *)

\* fnIn records the handlers that were waiting when the cache was cleared.
PendingInit ==
    /\ ServerInit
    /\ WorkerInit
    /\ fnIn = {}
    /\ fnOrig = <<>>
    /\ fnOut = <<>>
    /\ fnPc = "idle"

\* DELETE /api/cache, with the record of who was waiting
ClearCacheWhilePending ==
    /\ resolveCache' = ClearedCache(resolveCache)
    /\ lastResp' = ClearSent
    /\ fnIn' = fnIn \cup {call.seq : call \in inflight}
    /\ UNCHANGED <<now, nreq, products, offers, audit, inflight>>
    /\ UNCHANGED <<fnOrig, fnOut, fnPc>>
    /\ UNCHANGED workerVars

NextPending ==
    \/ Tick(CACHE_TTL + 1)
    \/ \E request \in Requests, sweep \in BOOLEAN : Resolve(request, sweep)
    \/ \E call \in inflight, backendOffers \in BackendReplies :
           BackendReturn(call, backendOffers)
    \/ ClearCacheWhilePending

SpecPending == PendingInit /\ [][NextPending]_vars

\* a handler that was waiting when the cache was cleared stores nothing when
\* it resumes
C37_Step ==
    \A call \in inflight :
       (call \notin inflight' /\ call.seq \in fnIn)
       => NoEntryAddedOrOverwritten

\* C37: a resolution that was waiting for the backend when the cache was
\* cleared does not put its result into the cache, so that no later request
\* is answered from a response whose resolution began before the clear.
C37_ClearIsFinal == [][C37_Step]_vars

---------------------------------------------------------------------------
(* The user preferences and the worker's cache *)

\* The objects UPDATE_SETTINGS carries when the user changes which offers
\* are shown.
PreferenceUpdates ==
    {[showDelivery |-> FALSE], [showPickup |-> FALSE], [maxDistance |-> 1],
     [showDelivery |-> TRUE, showPickup |-> TRUE, maxDistance |-> 5]}

NextPrefs ==
    \/ Tick(CACHE_TTL + 1)
    \/ \E productData \in ProductData : HandleProductResolve(productData)
    \/ \E call \in fetches, outcome \in FetchOutcomes :
           FetchReturn(call, outcome)
    \/ \E data \in PreferenceUpdates : UpdateSettings(data)

SpecPrefs == Init /\ [][NextPrefs]_vars

\* every offer of the list passes the preference filter
Permits(prefs, list) == PreferenceFilter(list, prefs) = list

\* the step sends the answer to a message that was served without a fetch
AnsweredAtOnce == nmsg' = nmsg + 1 /\ lastReply'.msg = nmsg'

\* the step sends the answer to the message of this fetch
AnsweredAfter(call) == call \in fetches /\ call \notin fetches'

\* an entry of the worker's cache holds an eligible result with offers
OnlyOfferedResultsStored ==
    \A i \in 1..Len(workerCache) :
       /\ workerCache[i].data.eligible
       /\ Len(workerCache[i].data.offers) > 0

C38_Step ==
    /\ (AnsweredAtOnce /\ "offers" \in DOMAIN lastReply'.body)
       => Permits(settings, lastReply'.body.offers)
    /\ \A call \in fetches :
          (AnsweredAfter(call) /\ "offers" \in DOMAIN lastReply'.body)
          => Permits(call.settings, lastReply'.body.offers)

\* C38: the offers of every answer of handleProductResolve, fetched or taken
\* from the worker's cache, pass the preferences the handler read for that
\* message, also after UPDATE_SETTINGS changed them; and the worker's cache
\* holds only eligible results with at least one offer.
C38_AnswersFollowPreferences ==
    []OnlyOfferedResultsStored /\ [][C38_Step]_vars

\* the fetched answers alone
C38_FetchedStep ==
    \A call \in fetches :
       (AnsweredAfter(call) /\ "offers" \in DOMAIN lastReply'.body)
       => Permits(call.settings, lastReply'.body.offers)

C38_FetchedAnswersFollowPreferences ==
    []OnlyOfferedResultsStored /\ [][C38_FetchedStep]_vars

---------------------------------------------------------------------------
(* The worker's cache in front of the server's cache *)

\* resolveRequest of handleProductResolve: the body of the POST.
resolveRequest(productData, zipCode) ==
    [productData EXCEPT !.currency = Or(productData.currency, "USD"),
                        !.zip = zipCode]

\* The fetch of one message reaches POST /api/resolve, the server answers
\* it at once and the worker goes on with the answer.
FetchServed(call, productData, sweep) ==
    /\ call \in fetches
    /\ workerGenerateCacheKey(productData, call.settings.zipCode)
           = call.cacheKey
    /\ Handle(resolveRequest(productData, call.settings.zipCode), sweep)
    /\ lastResp'.seq = nreq'
    /\ Settle(call, [kind |-> "ok", result |-> lastResp'.body])
    /\ UNCHANGED fnVars

\* Another client of the server posts the request the worker would post.
OtherClient(productData, sweep) ==
    Resolve(resolveRequest(productData, settings.zipCode), sweep)

NextFresh ==
    \/ \E t \in Instants : Tick(t)
    \/ \E productData \in ProductData, sweep \in BOOLEAN :
           OtherClient(productData, sweep)
    \/ \E productData \in ProductData : HandleProductResolve(productData)
    \/ \E call \in fetches, productData \in ProductData, sweep \in BOOLEAN :
           FetchServed(call, productData, sweep)

SpecFresh == Init /\ [][NextFresh]_vars

\* the body is an eligible result with offers, stamped by the resolver
OffersBody(body) ==
    /\ {"eligible", "offers", "timestamp"} \subseteq DOMAIN body
    /\ body.eligible
    /\ Len(body.offers) > 0

\* an entry the worker made from an answer the server gave from its cache
\* ends when the server's entry ends
KeptWithinServerLifetime ==
    \A i \in 1..Len(workerCache) :
       workerCache[i].data.cached
       => workerCache[i].timestamp + WORKER_CACHE_TTL
             <= workerCache[i].data.timestamp + CACHE_TTL

C39_Step ==
    (lastReply' # lastReply /\ OffersBody(lastReply'.body))
    => now' - lastReply'.body.timestamp <= CACHE_TTL

\* C39: the offers of an eligible answer the worker gives were computed by
\* the server's resolver at most one TTL before the answer, the two caches
\* taken together; an answer the server gave from its cache is not kept by
\* the worker longer than the server's entry has left.
C39_FreshEndToEnd == []KeptWithinServerLifetime /\ [][C39_Step]_vars

\* the answers taken alone
C39_AnswersFresh == [][C39_Step]_vars

=============================================================================
